---- MODULE Spec2Model ----
(***************************************************************************)
(* Liquidity-depth probing of server/index.js: the pacing gate             *)
(* (waitForRateLimit), the quote client (getQuote) and the depth           *)
(* calculation (calculateLiquidityDepth).                                  *)
(*                                                                         *)
(* Time is Date.now() in milliseconds.  Code between two awaits runs       *)
(* atomically (one JavaScript turn); every await is a separate step.  A    *)
(* timer or a response is delivered once the clock has reached its due     *)
(* time, and the clock advances when no active call can take a step.       *)
(*                                                                         *)
(* An amount is a pair <<n, e>> standing for n * 10^e: the ladder values,  *)
(* the powers of ten of the token decimals and the oracle's price keep     *)
(* every amount of the model in this form. Math.floor matters for the      *)
(* tests against 0 and against Number.MAX_SAFE_INTEGER, which are exact.   *)
(* A price is the exponent pe of 10^pe (output tokens per input token).    *)
(***************************************************************************)
EXTENDS Integers, Sequences, FiniteSets, TLC

\* ------------------------------------------------------------ constants
MIN_QUOTE_INTERVAL == 100
LARGE_AMOUNT_DELAY == 100
RATE_LIMIT_RETRY_DELAY == 1000
\* axiosInstance timeout: the longest a single upstream request can take
AxiosTimeout == 15000
MAX_CALCULATION_TIME == 120000
\* the buffer of the second timeout check: MAX_CALCULATION_TIME + 5000
TimeoutBuffer == 5000
\* the setTimeout before every shrink and search probe
ProbeDelay == 200
\* Math.floor(Number.MAX_SAFE_INTEGER / 10^7), MAX_SAFE_INTEGER = 9007199254740991
MaxSafeOver1e7 == 900719925
\* const TOKEN_LIST_CACHE_DURATION = 60 * 60 * 1000
TOKEN_LIST_CACHE_DURATION == 3600000
\* 7 * 24 * 60 * 60 * 1000 of saveSnapshot
SEVEN_DAYS == 604800000

\* ------------------------------------------------------------ bounds
\* Date.now() when the model starts (lastQuoteTime starts at 0, long before)
StartTime == 1000
\* latency of a fast upstream answer, below MIN_QUOTE_INTERVAL
FastLatency == 20
\* getQuote calls the first caller may make (the second caller makes one)
MaxCalls == 2
\* oracle answers that may deviate from the oracle's routing rule in one run
MaxFaults == 1
\* the probe interval of the partial-result scenario
ProbeInterval == 1000
\* how long the oracle of the outage runs is rate limited at first
OutageLength == 4000
\* a routing depth below the first ladder entry and inside its search range
ShallowDepth == 300
\* the routing depth of the oracles with price impact
ImpactDepth == 7300
\* a routing depth whose tenth lies between two baseline trial amounts
TrialImpactDepth == 730
\* a routing depth below every ladder entry and every search candidate
DustDepth == 50
\* how long a slow round over the token endpoints takes
FetchTime == 60000
\* getTokenList calls each caller may make
MaxTokenCalls == 2
\* time steps of a token list run
MaxTokenTicks == 3
\* the time steps of the token list runs: a slow round, 59 minutes, an hour
TokenSteps == {60000, 3540000, 3600000}
\* saveSnapshot calls of a run
MaxSaves == 4
\* time steps of a snapshot run
MaxSnapTicks == 2
\* the time steps of the snapshot runs: 1 ms, a day, 1 ms less than 7 days
SnapSteps == {1, 86400000, 604799999}
\* Date.now() may advance between the two clock readings of saveSnapshot
SaveLags == {0, 1}

Procs == {1, 2}
NoTime == 0 - 1
NullPrice == 0 - 100

\* retries arguments getQuote is called with in the source (1, 2, default 3, 4, 5)
RetryCounts == {1, 2, 3, 4, 5}
\* getQuote(..., retries = 3)
DefaultRetries == 3

\* what the upstream oracle can answer to one request: a quote, a quote whose
\* outAmount is "0", HTTP 429, a routing error (HTTP 400), a response without
\* outAmount/inAmount, no response at all
OracleKinds == {"ok", "zeroOut", "rateLimited", "noRoute", "malformed", "transport"}

\* const usdTradeSizes
usdTradeSizes ==
  <<500, 1000, 10000, 100000, 1000000, 10000000, 50000000, 100000000>>
\* const baselineAmounts
baselineAmounts == <<100, 50, 10>>

VARIABLES
  now,            \* Date.now()
  lastQuoteTime,  \* the process-wide pacing timestamp
  q,              \* per caller: the activation of getQuote
  prevReqAt,      \* start time of the upstream request before the latest one
  lastReqAt,      \* start time of the latest upstream request
  env,            \* the oracle and the parameters of the run (never change)
  faults,         \* oracle answers so far that deviated from its routing rule
  callsLeft,      \* getQuote calls each /api/quote caller may still make
  calc,           \* the activation of calculateLiquidityDepth
  tok,            \* the token list cache and the activations of getTokenList
  snap            \* the snapshot file and the saves made so far

vars == <<now, lastQuoteTime, q, prevReqAt, lastReqAt, env, faults, callsLeft,
          calc, tok, snap>>

\* ------------------------------------------------------------ helpers
RECURSIVE Pow2(_)
Pow2(n) == IF n <= 0 THEN 1 ELSE 2 * Pow2(n - 1)

RECURSIVE Pow10(_)
Pow10(n) == IF n <= 0 THEN 1 ELSE 10 * Pow10(n - 1)

Min2(a, b) == IF a <= b THEN a ELSE b
Abs(x) == IF x < 0 THEN 0 - x ELSE x

Zero == <<0, 0>>

\* the same amount with a mantissa that does not end in 0
RECURSIVE Norm(_)
Norm(a) ==
  IF a[1] = 0 THEN Zero
  ELSE IF a[1] % 10 = 0 THEN Norm(<<a[1] \div 10, a[2] + 1>>)
  ELSE a

\* Math.floor(n * 10^e)  (n is below 2^31, so e < -9 gives 0)
Floor(a) ==
  IF a[2] >= 0 THEN Norm(a)
  ELSE IF a[2] < 0 - 9 THEN Zero
  ELSE Norm(<<a[1] \div Pow10(0 - a[2]), 0>>)

\* value / Math.pow(10, decimals)
Readable(a, decimals) == IF a[1] = 0 THEN Zero ELSE <<a[1], a[2] - decimals>>

\* amount > 0
IsPositive(a) == a[1] > 0

\* n * 10^e <= t, for an integer t
AmtLeq(a, t) ==
  IF a[1] = 0 THEN TRUE
  ELSE IF a[2] >= 0 THEN a[2] <= 9 /\ a[1] <= t \div Pow10(a[2])
  ELSE IF a[2] < 0 - 9 THEN t >= 1
  ELSE \/ a[1] \div Pow10(0 - a[2]) < t
       \/ (a[1] \div Pow10(0 - a[2]) = t /\ a[1] % Pow10(0 - a[2]) = 0)

\* a + b
AmtAdd(a, b) ==
  IF a[1] = 0 THEN b
  ELSE IF b[1] = 0 THEN a
  ELSE LET m == Min2(a[2], b[2]) IN
       Norm(<<a[1] * Pow10(a[2] - m) + b[1] * Pow10(b[2] - m), m>>)

\* a <= b
AmtLe(a, b) ==
  IF a[1] = 0 THEN TRUE
  ELSE IF b[1] = 0 THEN FALSE
  ELSE LET m == Min2(a[2], b[2]) IN
       a[1] * Pow10(a[2] - m) <= b[1] * Pow10(b[2] - m)

\* Math.floor(Number.MAX_SAFE_INTEGER / 10^e), for e >= 7
MaxSafeQuot(e) == IF e >= 16 THEN 0 ELSE MaxSafeOver1e7 \div Pow10(e - 7)

\* a variant that never finds an amount above MAX_SAFE_INTEGER
ExceedsSafeNever(a) == FALSE

\* amount > Number.MAX_SAFE_INTEGER (n is below 2^31, so e < 7 cannot exceed)
ExceedsSafe(a) == a[2] >= 7 /\ a[1] > MaxSafeQuot(a[2])

\* quote.priceImpactPct is undefined
NoPct == 0 - 2000000000

NoResult ==
  [kind |-> "none", err |-> "none", status |-> 0, inAmt |-> Zero, outAmt |-> Zero,
   pct |-> NoPct]
UndefinedResult == [NoResult EXCEPT !.kind = "undefined"]

\* HTTP status carried by the error of an oracle answer (0: no response object)
StatusOf(kind) ==
  CASE kind = "rateLimited" -> 429
    [] kind = "noRoute" -> 400
    [] OTHER -> 0

\* the Error object getQuote throws for an oracle answer
ErrorResult(kind) ==
  [NoResult EXCEPT !.kind = "error",
                   !.err = IF kind = "malformed" THEN "invalid" ELSE kind,
                   !.status = StatusOf(kind)]

\* /api/quote passes the caller's amount through; its value plays no role
NoReq == [inMint |-> "A", raw |-> <<1, 0>>, slippageBps |-> 50]

IdleCall ==
  [pc |-> "idle", retries |-> 0, attempt |-> 0, wakeAt |-> NoTime,
   readLQT |-> NoTime, waits |-> <<>>, hist |-> <<>>, startAt |-> NoTime,
   ansAt |-> NoTime, result |-> NoResult, req |-> NoReq]

\* getQuote(inputMint, outputMint, amount, slippageBps, retries) is entered
NewCall(r, req) ==
  [IdleCall EXCEPT !.pc = "gate", !.retries = r, !.attempt = 1, !.req = req]

\* ------------------------------------------------------------ the oracle
\* the outAmount of a quote: the oracle trades at the flat price 10^env.pe
\* (output tokens B per input token A) between tokens of env.inDec and
\* env.outDec decimals; an amount below one base unit comes back as "0"
OracleOut(req) ==
  IF req.inMint = "A"
    THEN Floor(<<req.raw[1], req.raw[2] - env.inDec + env.pe + env.outDec>>)
    ELSE Floor(<<req.raw[1], req.raw[2] - env.outDec - env.pe + env.inDec>>)

\* the value of a request in USD: token B is the dollar token
ValueUsd(req) ==
  IF req.inMint = "A"
    THEN <<req.raw[1], req.raw[2] - env.inDec + env.pe>>
    ELSE <<req.raw[1], req.raw[2] - env.outDec>>

\* the oracles with price impact give a tenth of the flat output to every
\* trade worth more than a tenth of their routing depth
Impacted(req) ==
  /\ env.mode \in {"impact", "impactPct"}
  /\ ~AmtLeq(<<ValueUsd(req)[1], ValueUsd(req)[2] + 1>>, env.threshold)

\* outAmount of an "ok" answer
OracleOutAmt(req) ==
  IF Impacted(req) THEN Floor(<<OracleOut(req)[1], OracleOut(req)[2] - 1>>)
  ELSE OracleOut(req)

\* priceImpactPct of an "ok" answer, in ten-thousandths (-9000 is "-0.9"):
\* only the "impactPct" oracle sends the field
OraclePct(req) ==
  IF env.mode # "impactPct" THEN NoPct
  ELSE IF Impacted(req) THEN 0 - 9000 ELSE 0

\* the oracle routes every trade worth up to env.threshold dollars
Routed(req) == IF AmtLeq(ValueUsd(req), env.threshold) THEN "ok" ELSE "noRoute"

\* the answers the oracle may give to a request: always a quote ("flat"),
\* anything ("chaos"), its routing rule with at most env.maxFaults other
\* answers in a run ("threshold"), HTTP 429 for the first OutageLength
\* milliseconds and its routing rule afterwards ("outage"), its routing rule
\* with a worse price for large trades ("impact", "impactPct"), or always
\* the failure env.mode names
OracleAnswers(req) ==
  CASE env.mode = "flat" -> {"ok"}
    [] env.mode = "chaos" -> OracleKinds
    [] env.mode = "threshold" ->
         {Routed(req)} \cup (IF faults < env.maxFaults THEN OracleKinds ELSE {})
    [] env.mode \in {"impact", "impactPct"} -> {Routed(req)}
    [] env.mode = "outage" ->
         IF now < StartTime + OutageLength THEN {"rateLimited"} ELSE {Routed(req)}
    [] OTHER -> {env.mode}

IsFault(req, kind) == env.mode = "threshold" /\ kind # Routed(req)

\* response.data of a quote answer
QuoteResult(req, kind) ==
  [NoResult EXCEPT !.kind = "quote", !.status = 200, !.inAmt = req.raw,
                   !.outAmt = IF kind = "zeroOut" THEN Zero ELSE OracleOutAmt(req),
                   !.pct = OraclePct(req)]

\* ------------------------------------------------------------ waitForRateLimit
\* how long waitForRateLimit sleeps
GateDelay(t, last) ==
  IF t - last < MIN_QUOTE_INTERVAL THEN MIN_QUOTE_INTERVAL - (t - last) ELSE 0

\* await waitForRateLimit(): read the clock and the timestamp; sleep, or pass
QGate(p) ==
  /\ q[p].pc = "gate"
  /\ IF GateDelay(now, lastQuoteTime) > 0
       THEN /\ q' = [q EXCEPT ![p].pc = "gateSleep",
                              ![p].wakeAt = now + GateDelay(now, lastQuoteTime),
                              ![p].readLQT = lastQuoteTime]
            /\ UNCHANGED lastQuoteTime
       ELSE /\ q' = [q EXCEPT ![p].pc = "loop", ![p].readLQT = lastQuoteTime]
            /\ lastQuoteTime' = now
  /\ UNCHANGED <<now, prevReqAt, lastReqAt, env, tok, snap, faults, callsLeft, calc>>

\* the sleep of waitForRateLimit is over: lastQuoteTime = Date.now()
QGateWake(p) ==
  /\ q[p].pc = "gateSleep"
  /\ now >= q[p].wakeAt
  /\ q' = [q EXCEPT ![p].pc = "loop"]
  /\ lastQuoteTime' = now
  /\ UNCHANGED <<now, prevReqAt, lastReqAt, env, tok, snap, faults, callsLeft, calc>>

\* ------------------------------------------------------------ getQuote
\* the loop condition of  for (attempt = 1; attempt <= retries; attempt++)
LoopContinues(attempt, retries) == attempt <= retries

\* status === 429 && attempt < retries
ShouldBackoff(status, attempt, retries) == status = 429 /\ attempt < retries

\* a variant with a linear backoff
BackoffWaitLinear(attempt) == RATE_LIMIT_RETRY_DELAY * attempt

\* RATE_LIMIT_RETRY_DELAY * Math.pow(2, attempt - 1)
BackoffWait(attempt) == RATE_LIMIT_RETRY_DELAY * Pow2(attempt - 1)

\* attempt === retries
IsLastAttempt(attempt, retries) == attempt = retries

\* loop head: issue the upstream request of this attempt, or fall out of the loop
QIssue(p) ==
  /\ q[p].pc = "loop"
  /\ IF LoopContinues(q[p].attempt, q[p].retries)
       THEN /\ q' = [q EXCEPT ![p].pc = "inflight",
                              ![p].wakeAt = now + env.latency,
                              ![p].startAt = now]
            /\ prevReqAt' = lastReqAt
            /\ lastReqAt' = now
       ELSE /\ q' = [q EXCEPT ![p].pc = "ret", ![p].result = UndefinedResult]
            /\ UNCHANGED <<prevReqAt, lastReqAt>>
  /\ UNCHANGED <<now, lastQuoteTime, env, tok, snap, faults, callsLeft, calc>>

\* the answer of the oracle arrives: return the quote, or the catch block
QAnswer(p, kind) ==
  /\ q[p].pc = "inflight"
  /\ now >= q[p].wakeAt
  /\ LET c == [q[p] EXCEPT !.hist = Append(@, kind), !.ansAt = now] IN
     IF kind \in {"ok", "zeroOut"}
       THEN q' = [q EXCEPT ![p] =
                    [c EXCEPT !.pc = "ret", !.result = QuoteResult(c.req, kind)]]
     ELSE IF ShouldBackoff(StatusOf(kind), c.attempt, c.retries)
       THEN q' = [q EXCEPT ![p] =
                    [c EXCEPT !.pc = "backoff",
                              !.wakeAt = now + BackoffWait(c.attempt),
                              !.waits = Append(@, BackoffWait(c.attempt))]]
     ELSE IF IsLastAttempt(c.attempt, c.retries)
       THEN q' = [q EXCEPT ![p] =
                    [c EXCEPT !.pc = "ret", !.result = ErrorResult(kind)]]
     ELSE q' = [q EXCEPT ![p] =
                    [c EXCEPT !.pc = "loop", !.attempt = @ + 1,
                              !.waits = Append(@, 0)]]
  /\ faults' = IF IsFault(q[p].req, kind) THEN faults + 1 ELSE faults
  /\ UNCHANGED <<now, lastQuoteTime, prevReqAt, lastReqAt, env, tok, snap, callsLeft, calc>>

QRespond(p) == \E kind \in OracleAnswers(q[p].req) : QAnswer(p, kind)

\* the backoff sleep is over: continue with the next attempt
QBackoffWake(p) ==
  /\ q[p].pc = "backoff"
  /\ now >= q[p].wakeAt
  /\ q' = [q EXCEPT ![p].pc = "loop", ![p].attempt = @ + 1]
  /\ UNCHANGED <<now, lastQuoteTime, prevReqAt, lastReqAt, env, tok, snap, faults,
                 callsLeft, calc>>

\* ------------------------------------------------------------ /api/quote
\* app.get('/api/quote'): a request arrives and calls getQuote
ApiQuote(p) ==
  /\ q[p].pc = "idle"
  /\ callsLeft[p] > 0
  /\ \E r \in env.retryArgs : q' = [q EXCEPT ![p] = NewCall(r, NoReq)]
  /\ callsLeft' = [callsLeft EXCEPT ![p] = @ - 1]
  /\ UNCHANGED <<now, lastQuoteTime, prevReqAt, lastReqAt, env, tok, snap, faults, calc>>

\* the handler answers (res.json or status 500) once getQuote has finished
ApiReply(p) ==
  /\ q[p].pc = "ret"
  /\ q' = [q EXCEPT ![p] = IdleCall]
  /\ UNCHANGED <<now, lastQuoteTime, prevReqAt, lastReqAt, env, tok, snap, faults,
                 callsLeft, calc>>

\* ------------------------------------------------------------ calculateLiquidityDepth
\* the caller whose getQuote activation the calculation awaits
Cp == 1

\* const quoteInputDecimals = isBuy ? outputDecimals : inputDecimals
QuoteInputDecimals(isBuy) == IF isBuy THEN env.outDec ELSE env.inDec

\* a variant that spends the input token in both directions
QuoteInputMintSell(isBuy) == "A"

\* const quoteInputMint = isBuy ? outputMint : inputMint
QuoteInputMint(isBuy) == IF isBuy THEN "B" ELSE "A"

\* tokenAmount = 10^x * usd: isBuy ? usd : (baselinePrice ? usd / baselinePrice : usd / 100)
TokenExp(isBuy, baselinePrice) ==
  IF isBuy THEN 0
  ELSE IF baselinePrice # NullPrice THEN 0 - baselinePrice
  ELSE 0 - 2

\* a variant that takes the dollar amount for the token amount
RawOfDollars(usd, isBuy, baselinePrice) ==
  Floor(<<usd, QuoteInputDecimals(isBuy)>>)

\* Math.floor(tokenAmount * Math.pow(10, quoteInputDecimals))
RawOf(usd, isBuy, baselinePrice) ==
  Floor(<<usd, TokenExp(isBuy, baselinePrice) + QuoteInputDecimals(isBuy)>>)

\* quote?.outAmount && quote?.inAmount
HasAmounts(res) == res.kind = "quote"

\* isBuy ? quote.outAmount : quote.inAmount, and the other way round
InputRaw(isBuy, res) == IF isBuy THEN res.outAmt ELSE res.inAmt
OutputRaw(isBuy, res) == IF isBuy THEN res.inAmt ELSE res.outAmt

\* inputAmountReadable and outputAmountReadable
InputReadable(isBuy, res) == Readable(InputRaw(isBuy, res), env.inDec)
OutputReadable(isBuy, res) == Readable(OutputRaw(isBuy, res), env.outDec)

\* isFinite(x) && x > 0, for both readable amounts
ValidAmounts(isBuy, res) ==
  IsPositive(InputRaw(isBuy, res)) /\ IsPositive(OutputRaw(isBuy, res))

\* price = outputAmountReadable / inputAmountReadable, as the exponent of ten
\* (the oracle's price is a power of ten, so the two mantissas are equal)
PriceOf(isBuy, res) == OutputReadable(isBuy, res)[2] - InputReadable(isBuy, res)[2]

\* price < 1e10 (baseline trials, shrink loop and search)
PriceBelowLimit(p) == p < 10

\* !(price > 1e10) (ladder entries)
PriceNotAboveLimit(p) == p <= 10

\* the same function without the try block around the binary-search probe
InTryNoBin(phase) == phase # "bin"

\* the try blocks of the function: a getQuote that throws in one of these
\* phases is caught; the catch block of the ladder entry runs the search,
\* whose own probes are inside inner try blocks
InTry(phase) == phase \in {"reverse", "baseline", "ladder", "shrink", "desc", "bin"}

\* the same function without the time check at the head of a ladder entry
TimeExceededNever(elapsed, budget) == FALSE

\* elapsed > MAX_CALCULATION_TIME
TimeExceeded(elapsed, budget) == elapsed > budget

\* console.log in the baseline loop reads outputToken and inputToken, which
\* are declared nowhere: the template literal throws a ReferenceError inside
\* the try block, after baselinePrice has been assigned and before the break
BaselineLogThrows == TRUE

\* retryCount of a ladder entry
RetryCount(usd) == IF usd >= 50000000 THEN 5 ELSE IF usd >= 10000000 THEN 4 ELSE 2

\* slippageBps of a ladder entry
LadderSlippage(usd) ==
  IF usd >= 50000000 THEN 10000
  ELSE IF usd >= 10000000 THEN 5000
  ELSE IF usd >= 1000000 THEN 500
  ELSE 50

\* smallerSlippageBps of the shrink loop, testSlippageBps of the binary search
TieredSlippage(usd) ==
  IF usd >= 50000000 THEN 10000
  ELSE IF usd >= 10000000 THEN 5000
  ELSE IF usd >= 1000000 THEN 500
  ELSE IF usd >= 100000 THEN 200
  ELSE 100

\* smallerSlippageBps of the descending search
DescSlippage(usd) ==
  IF usd >= 50000000 THEN 10000 ELSE IF usd >= 10000000 THEN 5000 ELSE 500

\* a variant that finds no recorded point near any value
ExistingPointNone(points, usd) == FALSE

\* a variant that finds only a recorded point of exactly the same value
ExistingPointExact(points, usd) ==
  \E k \in 1..Len(points) : points[k].tradeUsdValue = usd

\* depthPoints.find(p => Math.abs(p.tradeUsdValue - usd) < 1000)
ExistingPoint(points, usd) ==
  \E k \in 1..Len(points) : Abs(points[k].tradeUsdValue - usd) < 1000

\* a variant that keys the point by a value taken from the quoted amounts
MkPointRederived(usd, isBuy, res, priceImpact) ==
  [tradeUsdValue |-> res.inAmt[1], price |-> PriceOf(isBuy, res),
   amount |-> InputReadable(isBuy, res),
   outputAmount |-> OutputReadable(isBuy, res), priceImpact |-> priceImpact]

\* the object pushed to depthPoints
MkPoint(usd, isBuy, res, priceImpact) ==
  [tradeUsdValue |-> usd, price |-> PriceOf(isBuy, res),
   amount |-> InputReadable(isBuy, res),
   outputAmount |-> OutputReadable(isBuy, res), priceImpact |-> priceImpact]

\* Number.POSITIVE_INFINITY among the price impacts
Infinity == 2000000000

\* (10^d - 1) * 100 percent, in hundredths of a percent: the relative
\* difference of two prices whose exponents differ by d (below a hundredth
\* of a percent the fraction is cut off)
RelDiff(d) ==
  IF d >= 5 THEN Infinity - 1
  ELSE IF d >= 0 THEN (Pow10(d) - 1) * 10000
  ELSE IF d >= 0 - 4 THEN 0 - (10000 - Pow10(4 + d))
  ELSE 0 - 10000

\* a variant of Math.abs that keeps the sign
MathAbsId(x) == x

\* Math.abs
MathAbs(x) == Abs(x)

\* Math.abs(((price - baselinePrice) / baselinePrice) * 100) of the shrink
\* loop and the search; a null baseline divides the positive price by 0
SearchImpact(price, baselinePrice) ==
  IF baselinePrice = NullPrice THEN Infinity
  ELSE MathAbs(RelDiff(price - baselinePrice))

\* priceImpact of a ladder point: the oracle's figure if it sent one, else
\* Math.abs((expectedOutput - actualOutput) / expectedOutput) * 100 with
\* expectedOutput = inputAmountReadable * baselinePrice, else 0
LadderImpact(res, price, baselinePrice) ==
  IF res.pct # NoPct THEN MathAbs(res.pct)
  ELSE IF baselinePrice # NullPrice
    THEN MathAbs(0 - RelDiff(price - baselinePrice))
  ELSE 0

\* the object pushed to errors
MkError(usd, error, statusCode) ==
  [tradeSize |-> usd, error |-> error, statusCode |-> statusCode]

\* a message pushed to logs, by what it reports
MkLog(tag, usd, elapsed) == [tag |-> tag, usd |-> usd, elapsed |-> elapsed]

\* a variant that takes every failure for a routing error
IsRoutingErrorAny(res) == TRUE

\* isRoutingError: the error names a routing or liquidity problem, or status 400
IsRoutingError(res) == res.err = "noRoute" \/ res.status = 400

\* depthPoints.sort((a, b) => a.tradeUsdValue - b.tradeUsdValue): a stable sort
RECURSIVE InsertByUsd(_, _)
InsertByUsd(pt, s) ==
  IF s = <<>> THEN <<pt>>
  ELSE IF s[Len(s)].tradeUsdValue <= pt.tradeUsdValue THEN Append(s, pt)
  ELSE Append(InsertByUsd(pt, SubSeq(s, 1, Len(s) - 1)), s[Len(s)])

RECURSIVE SortByUsd(_)
SortByUsd(s) ==
  IF s = <<>> THEN <<>>
  ELSE InsertByUsd(s[Len(s)], SortByUsd(SubSeq(s, 1, Len(s) - 1)))

\* the state of the function when it is called
NewCalc(isBuy) ==
  [pc |-> "start", isBuy |-> isBuy, startT |-> NoTime,
   baselinePrice |-> NullPrice, bi |-> 0, idx |-> 0, elapsed |-> 0,
   points |-> <<>>, errors |-> <<>>, logs |-> <<>>, wakeAt |-> NoTime,
   cands |-> <<>>, ci |-> 0, found |-> FALSE, maxWorking |-> 0,
   low |-> 0, high |-> 0, best |-> 0, mid |-> 0,
   entryErr |-> NoResult, probes |-> <<>>, iters |-> 0]

IdleCalc == [NewCalc(TRUE) EXCEPT !.pc = "idle"]

\* the calculation calls getQuote; probes remembers every call: the ladder
\* entry it is made for (0 before the ladder), the phase, and the elapsed time
Probe(c, phase) ==
  [c EXCEPT !.probes = Append(@, [entry |-> IF phase \in {"reverse", "baseline"}
                                              THEN 0 ELSE c.idx,
                                  phase |-> phase,
                                  at |-> now - c.startT,
                                  checked |-> c.elapsed])]

CallQuote(retries, req) == q' = [q EXCEPT ![Cp] = NewCall(retries, req)]

MkReq(isBuy, raw, slippageBps) ==
  [inMint |-> QuoteInputMint(isBuy), raw |-> raw, slippageBps |-> slippageBps]

\* the awaited getQuote has returned or thrown
Returned == q[Cp].pc = "ret"

\* the function is entered: calculationStartTime = Date.now(); a Sell run
\* first asks for the reverse quote of $100 of the output token
CalcStart ==
  /\ calc.pc = "start"
  /\ LET c == [calc EXCEPT !.startT = now] IN
     IF ~calc.isBuy
       THEN /\ calc' = [Probe(c, "reverse") EXCEPT !.pc = "reverseWait"]
            /\ CallQuote(1, [inMint |-> "B", raw |-> Floor(<<100, env.outDec>>),
                             slippageBps |-> 50])
       ELSE /\ calc' = [c EXCEPT !.pc = "baseline", !.bi = 1]
            /\ UNCHANGED q
  /\ UNCHANGED <<now, lastQuoteTime, prevReqAt, lastReqAt, env, tok, snap, faults, callsLeft>>

\* estimatedPrice = reverseInputReadable / reverseOutputReadable, when it is
\* positive, finite and below 1e10
ReversePrice(res) ==
  IF HasAmounts(res) /\ IsPositive(res.outAmt)
       /\ PriceBelowLimit(Readable(res.inAmt, env.outDec)[2]
                          - Readable(res.outAmt, env.inDec)[2])
    THEN Readable(res.inAmt, env.outDec)[2] - Readable(res.outAmt, env.inDec)[2]
    ELSE NullPrice

\* the reverse quote has returned or thrown
CalcReverseDone ==
  /\ calc.pc = "reverseWait"
  /\ Returned
  /\ LET res == q[Cp].result IN
     IF res.kind = "error" /\ ~InTry("reverse")
       THEN calc' = [calc EXCEPT !.pc = "raised"]
     ELSE IF ReversePrice(res) # NullPrice
       THEN calc' = [calc EXCEPT !.baselinePrice = ReversePrice(res),
                                 !.pc = "ladder", !.idx = 1]
     ELSE calc' = [calc EXCEPT !.pc = "baseline", !.bi = 1]
  /\ q' = [q EXCEPT ![Cp] = IdleCall]
  /\ UNCHANGED <<now, lastQuoteTime, prevReqAt, lastReqAt, env, tok, snap, faults, callsLeft>>

\* the exponent x of smallTokenAmount = 10^x * smallUsdAmount of a baseline trial
BaselineTokenExp(usd, isBuy, baselinePrice) ==
  IF isBuy THEN 0
  ELSE IF baselinePrice # NullPrice THEN 0 - baselinePrice
  ELSE LET ok == {x \in {0 - 2, 0 - 1, 0, 1} :
                    IsPositive(Floor(<<usd, x + QuoteInputDecimals(isBuy)>>))}
       IN IF ok = {} THEN 0 - 2 ELSE CHOOSE x \in ok : \A y \in ok : x <= y

\* one iteration of  for (const smallUsdAmount of baselineAmounts)
CalcBaselineTrial ==
  /\ calc.pc = "baseline"
  /\ IF calc.bi > Len(baselineAmounts)
       THEN /\ calc' = [calc EXCEPT !.pc = "ladder", !.idx = 1]
            /\ UNCHANGED q
       ELSE LET usd == baselineAmounts[calc.bi]
                raw == Floor(<<usd, BaselineTokenExp(usd, calc.isBuy, calc.baselinePrice)
                                    + QuoteInputDecimals(calc.isBuy)>>)
            IN IF ~IsPositive(raw)
                 THEN /\ calc' = [calc EXCEPT !.bi = @ + 1]
                      /\ UNCHANGED q
                 ELSE /\ calc' = [Probe(calc, "baseline") EXCEPT !.pc = "baselineWait"]
                      /\ CallQuote(2, MkReq(calc.isBuy, raw, 50))
  /\ UNCHANGED <<now, lastQuoteTime, prevReqAt, lastReqAt, env, tok, snap, faults, callsLeft>>

\* the quote of a baseline trial has returned or thrown
CalcBaselineDone ==
  /\ calc.pc = "baselineWait"
  /\ Returned
  /\ LET res == q[Cp].result
         valid == HasAmounts(res) /\ ValidAmounts(calc.isBuy, res)
                    /\ PriceBelowLimit(PriceOf(calc.isBuy, res))
     IN
     IF res.kind = "error" /\ ~InTry("baseline")
       THEN calc' = [calc EXCEPT !.pc = "raised"]
     ELSE IF valid /\ ~BaselineLogThrows
       THEN calc' = [calc EXCEPT !.baselinePrice = PriceOf(calc.isBuy, res),
                                 !.pc = "ladder", !.idx = 1]
     ELSE IF valid
       THEN calc' = [calc EXCEPT !.baselinePrice = PriceOf(calc.isBuy, res),
                                 !.pc = "baseline", !.bi = @ + 1]
     ELSE calc' = [calc EXCEPT !.pc = "baseline", !.bi = @ + 1]
  /\ q' = [q EXCEPT ![Cp] = IdleCall]
  /\ UNCHANGED <<now, lastQuoteTime, prevReqAt, lastReqAt, env, tok, snap, faults, callsLeft>>

\* a variant that leaves the ladder loop after an entry
AfterEntryAbort(c) == [c EXCEPT !.pc = "ladder", !.idx = Len(env.ladder) + 1]

\* continue: on to the next ladder entry
AfterEntry(c) == [c EXCEPT !.pc = "ladder", !.idx = @ + 1]

\* point.amount > 0 && point.price > 0 && isFinite(point.price) &&
\* isFinite(point.amount)
PointValid(point) == IsPositive(point.amount) /\ point.price # NullPrice

\* a variant that restarts the running sum at every point
AccumulateReset(cumulative, amount) == amount

\* cumulativeAmount += point.amount
Accumulate(cumulative, amount) == AmtAdd(cumulative, amount)

\* a variant that stores the running sums in the amounts as well
WithCumulativeAsAmount(point, cumulativeLiquidity, cumulativeOutputLiquidity) ==
  [tradeUsdValue |-> point.tradeUsdValue, price |-> point.price,
   amount |-> cumulativeLiquidity, outputAmount |-> cumulativeOutputLiquidity,
   priceImpact |-> point.priceImpact,
   cumulativeLiquidity |-> cumulativeLiquidity,
   cumulativeOutputLiquidity |-> cumulativeOutputLiquidity]

\* the point with its two cumulative fields
WithCumulative(point, cumulativeLiquidity, cumulativeOutputLiquidity) ==
  [tradeUsdValue |-> point.tradeUsdValue, price |-> point.price,
   amount |-> point.amount, outputAmount |-> point.outputAmount,
   priceImpact |-> point.priceImpact,
   cumulativeLiquidity |-> cumulativeLiquidity,
   cumulativeOutputLiquidity |-> cumulativeOutputLiquidity]

\* depthPoints.forEach: the points from the index-th on, given the points
\* already done and the two running sums
RECURSIVE Cumulate(_, _, _, _)
Cumulate(rest, done, cumulativeAmount, cumulativeOutputAmount) ==
  IF rest = <<>> THEN done
  ELSE IF PointValid(Head(rest))
    THEN LET ca == Accumulate(cumulativeAmount, Head(rest).amount)
             co == Accumulate(cumulativeOutputAmount, Head(rest).outputAmount)
         IN  Cumulate(Tail(rest), Append(done, WithCumulative(Head(rest), ca, co)),
                      ca, co)
  ELSE Cumulate(Tail(rest),
                Append(done,
                       WithCumulative(Head(rest),
                         IF done = <<>> THEN Zero
                         ELSE done[Len(done)].cumulativeLiquidity,
                         IF done = <<>> THEN Zero
                         ELSE done[Len(done)].cumulativeOutputLiquidity)),
                cumulativeAmount, cumulativeOutputAmount)

\* the sort of depthPoints and the forEach that follows it
Assemble(depthPoints) == Cumulate(SortByUsd(depthPoints), <<>>, Zero, Zero)

\* the code after the ladder loop: sort the points, add the cumulative
\* amounts and return
Finish(c) == [c EXCEPT !.pc = "done", !.points = Assemble(@)]

\* the baselinePrice field of the /api/liquidity-depth response, computed
\* from the returned depthPoints
ReportedBaseline(depth) == IF Len(depth) > 0 THEN depth[1].price ELSE NullPrice

Log(c, tag) == [c EXCEPT !.logs = Append(@, MkLog(tag, env.ladder[c.idx], c.elapsed))]

PushError(c, error, statusCode) ==
  [c EXCEPT !.errors = Append(@, MkError(env.ladder[c.idx], error, statusCode))]

\* testAmount after testAmount * 0.8, kept to whole dollars
RECURSIVE ShrinkList(_, _)
ShrinkList(testAmount, n) ==
  IF testAmount < 500 \/ n >= 20 THEN <<>>
  ELSE <<testAmount>> \o ShrinkList((testAmount * 4) \div 5, n + 1)

\* smallerAmounts of the overflow branch: from
\* Math.min(usdAmount, maxSafeUsdAmount * 0.9) down by 20% while >= 500, at
\* most 20, where maxSafeUsdAmount = MAX_SAFE_INTEGER / 10^quoteInputDecimals
\* (times baselinePrice for a Sell with a baseline), kept to whole dollars
ShrinkAmounts(usd, isBuy, baselinePrice) ==
  LET k == QuoteInputDecimals(isBuy)
             - (IF ~isBuy /\ baselinePrice # NullPrice THEN baselinePrice ELSE 0)
  IN ShrinkList(IF k < 7 THEN usd ELSE Min2(usd, (MaxSafeQuot(k) \div 10) * 9), 0)

\* smallerAmounts of the descending search, by the tier of usdAmount
DescCandidates(usd) ==
  IF usd >= 50000000 THEN
    <<45000000, 40000000, 35000000, 30000000, 25000000, 20000000, 15000000,
      12000000, 11000000, 10500000, 10000000>>
  ELSE IF usd >= 10000000 THEN
    <<9500000, 9000000, 8500000, 8000000, 7500000, 7000000, 6500000, 6000000,
      5500000, 5000000, 4500000, 4000000, 3500000, 3000000, 2500000, 2000000>>
  ELSE IF usd >= 1000000 THEN
    <<950000, 900000, 850000, 800000, 750000, 700000, 650000, 600000,
      550000, 500000, 450000, 400000, 350000, 300000, 250000, 200000>>
  ELSE IF usd >= 100000 THEN
    <<95000, 90000, 85000, 80000, 75000, 70000, 65000, 60000,
      55000, 50000, 45000, 40000, 35000, 30000, 25000, 20000>>
  ELSE IF usd >= 10000 THEN
    <<9500, 9000, 8500, 8000, 7500, 7000, 6500, 6000,
      5500, 5000, 4500, 4000, 3500, 3000, 2500, 2000>>
  ELSE IF usd >= 1000 THEN
    <<950, 900, 850, 800, 750, 700, 650, 600, 550, 500>>
  ELSE IF usd >= 500 THEN
    <<450, 400, 350, 300, 250, 200, 150, 100>>
  ELSE <<>>

\* a variant without a minimum step
MinStepNone(usd) == 0

\* minStep of the binary search
MinStep(usd) ==
  IF usd >= 10000000 THEN 100000
  ELSE IF usd >= 1000000 THEN 10000
  ELSE IF usd >= 100000 THEN 1000
  ELSE IF usd >= 10000 THEN 100
  ELSE IF usd >= 1000 THEN 50
  ELSE 10

\* one iteration of  for (const usdAmount of usdTradeSizes)  up to its first
\* await, continue or break; when the ladder is exhausted, the return
CalcLadderHead ==
  /\ calc.pc = "ladder"
  /\ IF calc.idx > Len(env.ladder)
       THEN calc' = Finish(calc) /\ UNCHANGED q
     ELSE
       LET usd == env.ladder[calc.idx]
           el == now - calc.startT
           c1 == Log([calc EXCEPT !.elapsed = el], "processing")
           raw == RawOf(usd, calc.isBuy, calc.baselinePrice)
           cs == ShrinkAmounts(usd, calc.isBuy, calc.baselinePrice)
           c3 == IF el > env.budget THEN Log(c1, "approaching") ELSE c1
       IN
       IF TimeExceeded(el, env.budget)
         THEN calc' = Finish(Log(c1, "timeout")) /\ UNCHANGED q
       ELSE IF ExceedsSafe(raw)
         THEN /\ calc' = IF cs = <<>>
                           THEN AfterEntry(PushError(Log(c1, "overflow"), "overflow", 0))
                           ELSE [Log(c1, "overflow") EXCEPT
                                   !.pc = "shrink", !.cands = cs, !.ci = 1,
                                   !.found = FALSE]
              /\ UNCHANGED q
       ELSE IF ~IsPositive(raw)
         THEN /\ calc' = AfterEntry(PushError(Log(c1, "tooSmall"), "tooSmall", 0))
              /\ UNCHANGED q
       ELSE IF el > env.budget + TimeoutBuffer
         THEN calc' = Finish(Log(c1, "timeout")) /\ UNCHANGED q
       ELSE IF usd >= 1000000 /\ env.budget - el > LARGE_AMOUNT_DELAY
         THEN /\ calc' = [c3 EXCEPT !.pc = "largeDelay",
                                    !.wakeAt = now + LARGE_AMOUNT_DELAY]
              /\ UNCHANGED q
       ELSE /\ calc' = [Probe(c3, "ladder") EXCEPT !.pc = "ladderWait"]
            /\ CallQuote(RetryCount(usd), MkReq(calc.isBuy, raw, LadderSlippage(usd)))
  /\ UNCHANGED <<now, lastQuoteTime, prevReqAt, lastReqAt, env, tok, snap, faults, callsLeft>>

\* the extra delay before a large ladder entry is over: request its quote
CalcLargeDelayWake ==
  /\ calc.pc = "largeDelay"
  /\ now >= calc.wakeAt
  /\ LET usd == env.ladder[calc.idx] IN
     /\ calc' = [Probe(calc, "ladder") EXCEPT !.pc = "ladderWait"]
     /\ CallQuote(RetryCount(usd),
                  MkReq(calc.isBuy, RawOf(usd, calc.isBuy, calc.baselinePrice),
                        LadderSlippage(usd)))
  /\ UNCHANGED <<now, lastQuoteTime, prevReqAt, lastReqAt, env, tok, snap, faults, callsLeft>>

\* the quote of a ladder entry has returned or thrown
CalcLadderDone ==
  /\ calc.pc = "ladderWait"
  /\ Returned
  /\ LET res == q[Cp].result
         usd == env.ladder[calc.idx]
     IN
     IF res.kind = "error" /\ ~InTry("ladder")
       THEN calc' = [calc EXCEPT !.pc = "raised"]
     ELSE IF HasAmounts(res)
       THEN IF ~ValidAmounts(calc.isBuy, res)
                 \/ ~PriceNotAboveLimit(PriceOf(calc.isBuy, res))
              THEN calc' = AfterEntry(calc)
              ELSE calc' = AfterEntry(
                     [Log(calc, "success") EXCEPT
                        !.baselinePrice = IF @ = NullPrice
                                            THEN PriceOf(calc.isBuy, res) ELSE @,
                        !.points = Append(@, MkPoint(usd, calc.isBuy, res,
                                     LadderImpact(res, PriceOf(calc.isBuy, res),
                                       IF calc.baselinePrice = NullPrice
                                         THEN PriceOf(calc.isBuy, res)
                                         ELSE calc.baselinePrice)))])
     ELSE IF res.kind # "error"
       THEN calc' = AfterEntry(PushError(Log(calc, "invalid"), "noQuoteData", 0))
     ELSE IF IsRoutingError(res)
       THEN calc' = [Log(calc, "routing") EXCEPT
                       !.pc = "desc", !.cands = DescCandidates(usd), !.ci = 1,
                       !.found = FALSE, !.maxWorking = 0, !.entryErr = res]
     ELSE calc' = AfterEntry(PushError(Log(calc, "failed"), res.err, res.status))
  /\ q' = [q EXCEPT ![Cp] = IdleCall]
  /\ UNCHANGED <<now, lastQuoteTime, prevReqAt, lastReqAt, env, tok, snap, faults, callsLeft>>

\* loop head of the shrink loop (overflow branch): the next smaller amount,
\* or the end of the loop, where the entry's overflow error is recorded
CalcShrinkNext ==
  /\ calc.pc = "shrink"
  /\ IF calc.ci > Len(calc.cands)
       THEN calc' = AfterEntry(PushError(Log(calc, "shrinkFailed"), "overflow", 0))
     ELSE LET raw == RawOf(calc.cands[calc.ci], calc.isBuy, calc.baselinePrice) IN
       IF ~IsPositive(raw) \/ ExceedsSafe(raw)
         THEN calc' = [calc EXCEPT !.ci = @ + 1]
         ELSE calc' = [calc EXCEPT !.pc = "shrinkSleep", !.wakeAt = now + ProbeDelay]
  /\ UNCHANGED <<now, lastQuoteTime, q, prevReqAt, lastReqAt, env, tok, snap, faults, callsLeft>>

\* the 200 ms delay of the shrink loop is over: request the quote
CalcShrinkWake ==
  /\ calc.pc = "shrinkSleep"
  /\ now >= calc.wakeAt
  /\ calc' = [Probe(calc, "shrink") EXCEPT !.pc = "shrinkWait"]
  /\ CallQuote(3, MkReq(calc.isBuy,
                        RawOf(calc.cands[calc.ci], calc.isBuy, calc.baselinePrice),
                        TieredSlippage(calc.cands[calc.ci])))
  /\ UNCHANGED <<now, lastQuoteTime, prevReqAt, lastReqAt, env, tok, snap, faults, callsLeft>>

\* a variant that takes whatever getQuote returns or throws for a valid quote
ProbeValidAny(isBuy, res) == TRUE

\* a probe's quote gives a point: amounts and price are valid
ProbeValid(isBuy, res) ==
  HasAmounts(res) /\ ValidAmounts(isBuy, res) /\ PriceBelowLimit(PriceOf(isBuy, res))

\* the quote of a smaller amount has returned or thrown
CalcShrinkDone ==
  /\ calc.pc = "shrinkWait"
  /\ Returned
  /\ LET res == q[Cp].result
         smaller == calc.cands[calc.ci]
         c1 == IF ProbeValid(calc.isBuy, res) /\ calc.baselinePrice = NullPrice
                 THEN [calc EXCEPT !.baselinePrice = PriceOf(calc.isBuy, res)]
                 ELSE calc
     IN
     IF res.kind = "error" /\ ~InTry("shrink")
       THEN calc' = [calc EXCEPT !.pc = "raised"]
     ELSE IF ProbeValid(calc.isBuy, res) /\ ~ExistingPoint(calc.points, smaller)
       THEN calc' = AfterEntry(PushError(
                      [Log(c1, "shrinkFound") EXCEPT
                         !.points = Append(@, MkPoint(smaller, calc.isBuy, res,
                                      SearchImpact(PriceOf(calc.isBuy, res),
                                                   c1.baselinePrice))),
                         !.found = TRUE],
                      "overflow", 0))
     ELSE calc' = [c1 EXCEPT !.pc = "shrink", !.ci = @ + 1]
  /\ q' = [q EXCEPT ![Cp] = IdleCall]
  /\ UNCHANGED <<now, lastQuoteTime, prevReqAt, lastReqAt, env, tok, snap, faults, callsLeft>>

\* a variant whose search ends without recording the routing error
EndSearchNoError(c) == AfterEntry(Log(c, "skip"))

\* the end of the search of a ladder entry: errors.push of the routing error
EndSearch(c) == AfterEntry(PushError(Log(c, "skip"), c.entryErr.err, c.entryErr.status))

\* loop head of the descending search: the next smaller amount, or the end
\* of the loop, where the binary search starts if an amount worked
CalcDescNext ==
  /\ calc.pc = "desc"
  /\ LET usd == env.ladder[calc.idx] IN
     IF calc.ci > Len(calc.cands)
       THEN IF ~calc.found
              THEN calc' = EndSearch(Log(calc, "noRoutable"))
            ELSE IF calc.maxWorking > 0 /\ usd > calc.maxWorking
              THEN calc' = [Log(calc, "searchUp") EXCEPT
                              !.pc = "bin", !.low = calc.maxWorking, !.high = usd,
                              !.best = calc.maxWorking, !.iters = 0]
            ELSE calc' = EndSearch(calc)
     ELSE IF ~IsPositive(RawOf(calc.cands[calc.ci], calc.isBuy, calc.baselinePrice))
       THEN calc' = [calc EXCEPT !.ci = @ + 1]
     ELSE calc' = [calc EXCEPT !.pc = "descSleep", !.wakeAt = now + ProbeDelay]
  /\ UNCHANGED <<now, lastQuoteTime, q, prevReqAt, lastReqAt, env, tok, snap, faults, callsLeft>>

\* the 200 ms delay of the descending search is over: request the quote
CalcDescWake ==
  /\ calc.pc = "descSleep"
  /\ now >= calc.wakeAt
  /\ calc' = [Probe(calc, "desc") EXCEPT !.pc = "descWait"]
  /\ CallQuote(3, MkReq(calc.isBuy,
                        RawOf(calc.cands[calc.ci], calc.isBuy, calc.baselinePrice),
                        DescSlippage(env.ladder[calc.idx])))
  /\ UNCHANGED <<now, lastQuoteTime, prevReqAt, lastReqAt, env, tok, snap, faults, callsLeft>>

\* the quote of a descending candidate has returned or thrown
CalcDescDone ==
  /\ calc.pc = "descWait"
  /\ Returned
  /\ LET res == q[Cp].result
         smaller == calc.cands[calc.ci]
     IN
     IF res.kind = "error" /\ ~InTry("desc")
       THEN calc' = [calc EXCEPT !.pc = "raised"]
     ELSE IF ProbeValid(calc.isBuy, res)
       THEN calc' = [calc EXCEPT
                       !.points = IF ExistingPoint(calc.points, smaller) THEN @
                                  ELSE Append(@, MkPoint(smaller, calc.isBuy, res,
                                         SearchImpact(PriceOf(calc.isBuy, res),
                                                      calc.baselinePrice))),
                       !.maxWorking = IF smaller > @ THEN smaller ELSE @,
                       !.found = TRUE, !.pc = "desc", !.ci = @ + 1]
     ELSE calc' = [calc EXCEPT !.pc = "desc", !.ci = @ + 1]
  /\ q' = [q EXCEPT ![Cp] = IdleCall]
  /\ UNCHANGED <<now, lastQuoteTime, prevReqAt, lastReqAt, env, tok, snap, faults, callsLeft>>

\* a variant that probes the upper end of the range
MidHigh(low, high) == high

\* Math.floor((low + high) / 2)
Mid(low, high) == (low + high) \div 2

\* loop head of  while (high - low > minStep)
CalcBinNext ==
  /\ calc.pc = "bin"
  /\ LET usd == env.ladder[calc.idx]
         mid == Mid(calc.low, calc.high)
     IN
     IF ~(calc.high - calc.low > MinStep(usd))
       THEN calc' = EndSearch(Log(calc, "maximum"))
     ELSE IF ExistingPoint(calc.points, mid)
       THEN calc' = [calc EXCEPT !.low = mid, !.iters = @ + 1]
     ELSE IF ~IsPositive(RawOf(mid, calc.isBuy, calc.baselinePrice))
       THEN calc' = [calc EXCEPT !.high = mid, !.iters = @ + 1]
     ELSE calc' = [calc EXCEPT !.pc = "binSleep", !.mid = mid,
                               !.wakeAt = now + ProbeDelay, !.iters = @ + 1]
  /\ UNCHANGED <<now, lastQuoteTime, q, prevReqAt, lastReqAt, env, tok, snap, faults, callsLeft>>

\* the 200 ms delay of the binary search is over: request the quote
CalcBinWake ==
  /\ calc.pc = "binSleep"
  /\ now >= calc.wakeAt
  /\ calc' = [Probe(calc, "bin") EXCEPT !.pc = "binWait"]
  /\ CallQuote(2, MkReq(calc.isBuy, RawOf(calc.mid, calc.isBuy, calc.baselinePrice),
                        TieredSlippage(env.ladder[calc.idx])))
  /\ UNCHANGED <<now, lastQuoteTime, prevReqAt, lastReqAt, env, tok, snap, faults, callsLeft>>

\* the quote of the binary search has returned or thrown
CalcBinDone ==
  /\ calc.pc = "binWait"
  /\ Returned
  /\ LET res == q[Cp].result IN
     IF res.kind = "error" /\ ~InTry("bin")
       THEN calc' = [calc EXCEPT !.pc = "raised"]
     ELSE IF ProbeValid(calc.isBuy, res)
       THEN calc' = [calc EXCEPT
                       !.points = Append(@, MkPoint(calc.mid, calc.isBuy, res,
                                    SearchImpact(PriceOf(calc.isBuy, res),
                                                 calc.baselinePrice))),
                       !.best = calc.mid, !.low = calc.mid, !.pc = "bin"]
     ELSE calc' = [calc EXCEPT !.high = calc.mid, !.pc = "bin"]
  /\ q' = [q EXCEPT ![Cp] = IdleCall]
  /\ UNCHANGED <<now, lastQuoteTime, prevReqAt, lastReqAt, env, tok, snap, faults, callsLeft>>

\* ------------------------------------------------------------ the clock
Waiting(p) == q[p].pc \in {"gateSleep", "inflight", "backoff"}

CanStep(p) ==
  \/ q[p].pc \in {"gate", "loop", "ret"}
  \/ Waiting(p) /\ now >= q[p].wakeAt

CalcSleeping == calc.pc \in {"largeDelay", "shrinkSleep", "descSleep", "binSleep"}

CalcAwaitingQuote ==
  calc.pc \in {"reverseWait", "baselineWait", "ladderWait", "shrinkWait",
               "descWait", "binWait"}

CalcCanStep ==
  \/ calc.pc \in {"start", "baseline", "ladder", "shrink", "desc", "bin"}
  \/ CalcSleeping /\ now >= calc.wakeAt
  \/ CalcAwaitingQuote /\ Returned

\* the due times of the pending timers and responses
WakeTimes ==
  {q[p].wakeAt : p \in {r \in Procs : Waiting(r)}}
    \cup (IF CalcSleeping THEN {calc.wakeAt} ELSE {})

\* nothing can run: time passes until the earliest timer or response is due
Advance ==
  /\ \A p \in Procs : ~CanStep(p)
  /\ ~CalcCanStep
  /\ WakeTimes # {}
  /\ now' = CHOOSE t \in WakeTimes : \A u \in WakeTimes : t <= u
  /\ UNCHANGED <<lastQuoteTime, q, prevReqAt, lastReqAt, env, tok, snap, faults, callsLeft,
                 calc>>

\* ------------------------------------------------------------ getTokenList
NoList == 0 - 1
\* what getFallbackTokens() returns
FallbackList == 0

IdleTokenCall ==
  [pc |-> "idle", now |-> NoTime, wakeAt |-> NoTime, result |-> NoList,
   refresh |-> FALSE]

\* tokenListCache and tokenListCacheTime are null when the module is loaded;
\* a list built from upstream is named by the number of the round that built
\* it; stored, storedAt and requests remember the last assignment of the
\* cache and the rounds of upstream requests started so far
NewTok ==
  [cache |-> NoList, cacheTime |-> NoTime, stored |-> NoList, storedAt |-> NoTime,
   built |-> 0, requests |-> 0, c |-> [p \in Procs |-> IdleTokenCall],
   left |-> [p \in Procs |-> 0], ticks |-> 0]

\* a variant that still serves the list at the full hour
CacheFreshInclusive(cache, cacheTime, t) ==
  cache # NoList /\ cacheTime # NoTime /\ t - cacheTime <= TOKEN_LIST_CACHE_DURATION

\* tokenListCache && tokenListCacheTime &&
\* (now - tokenListCacheTime) < TOKEN_LIST_CACHE_DURATION
CacheFresh(cache, cacheTime, t) ==
  cache # NoList /\ cacheTime # NoTime /\ t - cacheTime < TOKEN_LIST_CACHE_DURATION

\* getTokenList up to its first await: const now = Date.now(), then the
\* cached list is returned or the round over the token endpoints starts
EnterTokenList(t, p, refresh, latency) ==
  IF CacheFresh(t.cache, t.cacheTime, now)
    THEN [t EXCEPT !.c[p] = [pc |-> "ret", now |-> now, wakeAt |-> NoTime,
                             result |-> t.cache, refresh |-> refresh]]
    ELSE [t EXCEPT !.c[p] = [pc |-> "fetching", now |-> now,
                             wakeAt |-> now + latency, result |-> NoList,
                             refresh |-> refresh],
                   !.requests = @ + 1]

\* app.get('/api/tokens'): refresh=true clears the cache, then getTokenList
\* is called (getTokenDecimals calls it the same way, without a refresh)
ApiTokens(p, refresh) ==
  /\ tok.c[p].pc = "idle"
  /\ tok.left[p] > 0
  /\ \E latency \in {FetchTime} :
       tok' = EnterTokenList(
                [tok EXCEPT !.left[p] = @ - 1,
                            !.cache = IF refresh THEN NoList ELSE @,
                            !.cacheTime = IF refresh THEN NoTime ELSE @],
                p, refresh, latency)
  /\ UNCHANGED <<now, lastQuoteTime, q, prevReqAt, lastReqAt, env, faults,
                 callsLeft, calc, snap>>

\* the round over the token endpoints is over: with tokens from upstream the
\* list is built and stored under the time read at the entry of the call,
\* without any the fallback list is returned and nothing is stored
TokensFetched(p, delivered) ==
  /\ tok.c[p].pc = "fetching"
  /\ now >= tok.c[p].wakeAt
  /\ IF delivered
       THEN tok' = [tok EXCEPT !.cache = tok.built + 1,
                               !.cacheTime = tok.c[p].now,
                               !.stored = tok.built + 1,
                               !.storedAt = now,
                               !.built = @ + 1,
                               !.c[p].pc = "ret",
                               !.c[p].result = tok.built + 1]
       ELSE tok' = [tok EXCEPT !.c[p].pc = "ret", !.c[p].result = FallbackList]
  /\ UNCHANGED <<now, lastQuoteTime, q, prevReqAt, lastReqAt, env, faults,
                 callsLeft, calc, snap>>

\* the caller has its list
TokensReply(p) ==
  /\ tok.c[p].pc = "ret"
  /\ tok' = [tok EXCEPT !.c[p] = IdleTokenCall]
  /\ UNCHANGED <<now, lastQuoteTime, q, prevReqAt, lastReqAt, env, faults,
                 callsLeft, calc, snap>>

\* the times at which the pending rounds over the token endpoints are over
TokenWakeTimes == {tok.c[p].wakeAt : p \in {r \in Procs : tok.c[r].pc = "fetching"}}

\* time passes: d milliseconds, or less when a pending round is over before
\* (its continuation runs as soon as the last response is in)
TokenTick(d) ==
  /\ tok.ticks < MaxTokenTicks
  /\ \A t \in TokenWakeTimes : t > now
  /\ now' = IF \E t \in TokenWakeTimes : t < now + d
              THEN CHOOSE t \in TokenWakeTimes : \A u \in TokenWakeTimes : t <= u
              ELSE now + d
  /\ tok' = [tok EXCEPT !.ticks = @ + 1]
  /\ UNCHANGED <<lastQuoteTime, q, prevReqAt, lastReqAt, env, faults, callsLeft,
                 calc, snap>>

\* ------------------------------------------------------------ saveSnapshot
\* the file holds { snapshots: [] } when the module is loaded; a snapshot is
\* its timestamp (new Date().toISOString(), read back with new Date(): the
\* milliseconds of Date.now()) and the number of the save that wrote it;
\* last, saves and dropped remember the stamp of the latest save, the saves
\* made and the snapshots the filter has removed
NewSnap == [file |-> <<>>, saves |-> 0, last |-> NoTime, dropped |-> 0, ticks |-> 0]

\* a variant that keeps every snapshot
RetainedAlways(timestamp, sevenDaysAgo) == TRUE

\* new Date(snapshot.timestamp) > sevenDaysAgo
Retained(timestamp, sevenDaysAgo) == timestamp > sevenDaysAgo

\* data.snapshots.filter(snapshot => new Date(snapshot.timestamp) > sevenDaysAgo)
FilterSnapshots(snapshots, sevenDaysAgo) ==
  LET Keep(s) == Retained(s.timestamp, sevenDaysAgo)
  IN  SelectSeq(snapshots, Keep)

\* getSnapshots(): the snapshots of the file, none when it cannot be read
GetSnapshots(readOk) == IF readOk THEN snap.file ELSE <<>>

\* saveSnapshot(tokens): read the file, push the snapshot stamped with the
\* current time, drop what is older than sevenDaysAgo = Date.now() - 7 days
\* (read lag milliseconds after the stamp), write the file
SaveSnapshot(lag, readOk) ==
  /\ snap.saves < MaxSaves
  /\ LET pushed == Append(GetSnapshots(readOk),
                          [timestamp |-> now, n |-> snap.saves + 1])
         kept == FilterSnapshots(pushed, now + lag - SEVEN_DAYS)
     IN  snap' = [file |-> kept,
                  saves |-> snap.saves + 1,
                  last |-> now,
                  dropped |-> snap.dropped + (Len(pushed) - Len(kept)),
                  ticks |-> snap.ticks]
  /\ now' = now + lag
  /\ UNCHANGED <<lastQuoteTime, q, prevReqAt, lastReqAt, env, faults, callsLeft,
                 calc, tok>>

\* time passes between two saves
SnapTick(d) ==
  /\ snap.ticks < MaxSnapTicks
  /\ now' = now + d
  /\ snap' = [snap EXCEPT !.ticks = @ + 1]
  /\ UNCHANGED <<lastQuoteTime, q, prevReqAt, lastReqAt, env, faults, callsLeft,
                 calc, tok>>

\* ------------------------------------------------------------ runs
\* token pairs (decimals of A and B, price of A in B as a power of ten):
\* a SOL-like token, a cheap token with 9 decimals, a very expensive token
SolLike == [inDec |-> 9, outDec |-> 6, pe |-> 2]
LowPrice == [inDec |-> 9, outDec |-> 9, pe |-> 0 - 3]
HighPrice == [inDec |-> 6, outDec |-> 6, pe |-> 9]
\* an output token with 18 decimals
WideDecimals == [inDec |-> 9, outDec |-> 18, pe |-> 2]
\* a token whose price is exactly the sanity ceiling of 1e10
CeilingPrice == [inDec |-> 6, outDec |-> 6, pe |-> 10]

\* the dollar depth of the oracle's routes: $7.3M, unlimited
Thresholds == {7300000, 2000000000}

\* the ladder of the partial-result scenario: 10 entries
ScenarioLadder ==
  <<500, 1000, 2000, 5000, 10000, 20000, 50000, 100000, 200000, 500000>>

MkEnv(pair, mode, threshold, maxFaults, latency, budget, ladder, retryArgs) ==
  [inDec |-> pair.inDec, outDec |-> pair.outDec, pe |-> pair.pe, mode |-> mode,
   threshold |-> threshold, maxFaults |-> maxFaults, latency |-> latency,
   budget |-> budget, ladder |-> ladder, retryArgs |-> retryArgs]

\* the oracle of the getQuote runs: any answer to any attempt
QuoteEnvs(retryArgs) ==
  {MkEnv(SolLike, "chaos", 0, 0, l, MAX_CALCULATION_TIME, usdTradeSizes, retryArgs) :
     l \in {FastLatency, AxiosTimeout}}

\* the function as deployed, against an oracle that always answers the same way
SteadyEnvs ==
  {MkEnv(pair, mode, 0, 0, l, MAX_CALCULATION_TIME, usdTradeSizes, {}) :
     pair \in {SolLike, LowPrice, HighPrice},
     mode \in {"flat", "zeroOut", "rateLimited", "noRoute", "malformed", "transport"},
     l \in {FastLatency, AxiosTimeout}}

\* the function as deployed, against an oracle with a routing depth and at
\* most MaxFaults other answers
DepthEnvs ==
  {MkEnv(pair, "threshold", t, MaxFaults, FastLatency, MAX_CALCULATION_TIME,
         usdTradeSizes, {}) :
     pair \in {SolLike, LowPrice}, t \in Thresholds}

\* routing depths inside the search range of the smaller tiers
TierThresholds == {730, 7300, 73000, 730000}

\* the function as deployed, against an oracle that routes exactly the
\* amounts up to a depth inside the range of one tier's search
TierEnvs ==
  {MkEnv(SolLike, "threshold", t, 0, FastLatency, MAX_CALCULATION_TIME,
         usdTradeSizes, {}) : t \in TierThresholds}

\* the function as deployed, against an oracle that is rate limited while
\* the baseline is estimated and routes up to a depth below the first ladder
\* entry afterwards
OutageEnvs ==
  {MkEnv(SolLike, "outage", ShallowDepth, 0, FastLatency, MAX_CALCULATION_TIME,
         usdTradeSizes, {})}

\* the function as deployed, against an oracle that routes only amounts
\* smaller than any amount the ladder and the searches try
ShallowEnvs ==
  {MkEnv(SolLike, "threshold", DustDepth, 0, FastLatency, MAX_CALCULATION_TIME,
         usdTradeSizes, {})}

\* the function as deployed, against oracles that route up to a depth and
\* give large trades a worse price, with and without a priceImpactPct field
ImpactEnvs ==
  {MkEnv(SolLike, mode, ImpactDepth, 0, FastLatency, MAX_CALCULATION_TIME,
         usdTradeSizes, {}) : mode \in {"impact", "impactPct"}}
  \cup {MkEnv(SolLike, "impact", TrialImpactDepth, 0, FastLatency,
               MAX_CALCULATION_TIME, usdTradeSizes, {})}

\* the function as deployed, for the token priced at the sanity ceiling
CeilingEnvs ==
  {MkEnv(CeilingPrice, "flat", 0, 0, FastLatency, MAX_CALCULATION_TIME,
         usdTradeSizes, {})}

\* the function as deployed, for the pair whose output token has 18 decimals
WideEnvs ==
  {MkEnv(WideDecimals, "flat", 0, 0, FastLatency, MAX_CALCULATION_TIME,
         usdTradeSizes, {})}

\* the partial-result scenario: a budget of 5 probe intervals, a ladder of
\* 10 entries, every probe succeeds and takes one interval
ScenarioEnvs ==
  {MkEnv(SolLike, "flat", 0, 0, ProbeInterval, 5 * ProbeInterval, ScenarioLadder, {})}

IsScenario == env.ladder = ScenarioLadder

InitCommon ==
  /\ now = StartTime
  /\ q = [p \in Procs |-> IdleCall]
  /\ prevReqAt = NoTime
  /\ lastReqAt = NoTime
  /\ faults = 0
  /\ snap = NewSnap

\* one caller, one call of getQuote with any of the retries arguments, in a
\* fresh process or shortly after an earlier call has passed the pacing gate
InitQuote ==
  /\ InitCommon
  /\ tok = NewTok
  /\ lastQuoteTime \in {0, StartTime - FastLatency}
  /\ env \in QuoteEnvs(RetryCounts)
  /\ callsLeft = [p \in Procs |-> IF p = 1 THEN 1 ELSE 0]
  /\ calc = IdleCalc

\* two /api/quote callers (retries = 3); the first may call again
InitQ ==
  /\ InitCommon
  /\ tok = NewTok
  /\ lastQuoteTime = 0
  /\ env \in QuoteEnvs({DefaultRetries})
  /\ callsLeft = [p \in Procs |-> IF p = 1 THEN MaxCalls ELSE 1]
  /\ calc = IdleCalc

\* one call of calculateLiquidityDepth, Buy or Sell
Init ==
  /\ InitCommon
  /\ tok = NewTok
  /\ lastQuoteTime = 0
  /\ env \in SteadyEnvs \cup DepthEnvs \cup TierEnvs \cup OutageEnvs \cup ShallowEnvs
               \cup ImpactEnvs \cup CeilingEnvs \cup WideEnvs
               \cup ScenarioEnvs
  /\ callsLeft = [p \in Procs |-> 0]
  /\ \E isBuy \in BOOLEAN : calc = NewCalc(isBuy)

\* two callers of getTokenList, by /api/tokens or getTokenDecimals
InitTokens ==
  /\ InitCommon
  /\ tok = [NewTok EXCEPT !.left = [p \in Procs |-> MaxTokenCalls]]
  /\ lastQuoteTime = 0
  /\ env \in ScenarioEnvs
  /\ callsLeft = [p \in Procs |-> 0]
  /\ calc = IdleCalc

\* a process that saves snapshots
InitSnapshots ==
  /\ InitCommon
  /\ tok = NewTok
  /\ lastQuoteTime = 0
  /\ env \in ScenarioEnvs
  /\ callsLeft = [p \in Procs |-> 0]
  /\ calc = IdleCalc

NextTokens ==
  \/ \E p \in Procs : \E refresh \in BOOLEAN : ApiTokens(p, refresh)
  \/ \E p \in Procs : \E delivered \in BOOLEAN : TokensFetched(p, delivered)
  \/ \E p \in Procs : TokensReply(p)
  \/ \E d \in TokenSteps : TokenTick(d)

NextSnapshots ==
  \/ \E lag \in SaveLags : \E readOk \in BOOLEAN : SaveSnapshot(lag, readOk)
  \/ \E d \in SnapSteps : SnapTick(d)

NextQ ==
  \/ \E p \in Procs : ApiQuote(p)
  \/ \E p \in Procs : QGate(p)
  \/ \E p \in Procs : QGateWake(p)
  \/ \E p \in Procs : QIssue(p)
  \/ \E p \in Procs : QRespond(p)
  \/ \E p \in Procs : QBackoffWake(p)
  \/ \E p \in Procs : ApiReply(p)
  \/ Advance

Next ==
  \/ CalcStart
  \/ CalcReverseDone
  \/ CalcBaselineTrial
  \/ CalcBaselineDone
  \/ CalcLadderHead
  \/ CalcLargeDelayWake
  \/ CalcLadderDone
  \/ CalcShrinkNext
  \/ CalcShrinkWake
  \/ CalcShrinkDone
  \/ CalcDescNext
  \/ CalcDescWake
  \/ CalcDescDone
  \/ CalcBinNext
  \/ CalcBinWake
  \/ CalcBinDone
  \/ QGate(Cp)
  \/ QGateWake(Cp)
  \/ QIssue(Cp)
  \/ QRespond(Cp)
  \/ QBackoffWake(Cp)
  \/ Advance

\* one call of getQuote
SpecQuote == InitQuote /\ [][NextQ]_vars

\* concurrent /api/quote callers of getQuote
SpecQ == InitQ /\ [][NextQ]_vars

\* one depth calculation
Spec == Init /\ [][Next]_vars

\* concurrent callers of getTokenList
SpecTokens == InitTokens /\ [][NextTokens]_vars

\* a sequence of saveSnapshot calls
SpecSnapshots == InitSnapshots /\ [][NextSnapshots]_vars

\* the oracle's price is a power of ten in every quote the runs produce
PricesArePowersOfTen ==
  \A p \in Procs :
    q[p].result.kind = "quote" =>
      \/ q[p].result.outAmt = Zero
      \/ q[p].result.outAmt[1] = q[p].result.inAmt[1]

\* ------------------------------------------------------------ claims
\* the ladder entry k has been reached: its "Processing" message is in logs
Processed(k) ==
  \E i \in 1..Len(calc.logs) :
    calc.logs[i].tag = "processing" /\ calc.logs[i].usd = env.ladder[k]

\* the run was truncated at ladder entry k
TruncatedAt(k) ==
  \E i \in 1..Len(calc.logs) :
    calc.logs[i].tag = "timeout" /\ calc.logs[i].usd = env.ladder[k]

\* errors holds an entry for ladder entry k
Failed(k) ==
  \E i \in 1..Len(calc.errors) : calc.errors[i].tradeSize = env.ladder[k]

\* depthPoints holds a point keyed by the dollar value of ladder entry k
HasPoint(k) ==
  \E i \in 1..Len(calc.points) : calc.points[i].tradeUsdValue = env.ladder[k]

Entries == 1..Len(env.ladder)

\* C1: calculateLiquidityDepth never raises and never stops before it has
\* returned, whatever the oracle answers during baseline estimation, ladder
\* sampling, overflow shrinking and the search; what it returns holds the
\* points (sorted by dollar value), the errors and the logs.
C1_NeverRaises ==
  /\ calc.pc # "raised"
  /\ calc.pc \notin {"done", "idle"} =>
       \/ CalcCanStep
       \/ CanStep(Cp)
       \/ WakeTimes # {}
  /\ calc.pc = "done" =>
       /\ calc.points = SortByUsd(calc.points)
       /\ calc.logs # <<>>
       /\ q[Cp] = IdleCall

C1_Witness ==
  /\ calc.pc = "done"
  /\ faults > 0
  /\ calc.errors # <<>>
  /\ \E i, j, k \in 1..Len(calc.probes) :
       /\ calc.probes[i].phase = "baseline"
       /\ calc.probes[j].phase = "desc"
       /\ calc.probes[k].phase = "bin"

\* C2: a failure of a ladder entry does not end the run: once errors holds
\* an entry for ladder entry k, the loop is at entry k+1 or has reached it, and
\* a run is only truncated at an entry when the elapsed time it read there
\* exceeds the budget.
C2_FailureDoesNotAbort ==
  /\ \A k \in Entries :
       (Failed(k) /\ k < Len(env.ladder)) =>
         \/ calc.pc = "ladder" /\ calc.idx = k + 1
         \/ Processed(k + 1)
  /\ \A i \in 1..Len(calc.logs) :
       calc.logs[i].tag = "timeout" => calc.logs[i].elapsed > env.budget

C2_Witness ==
  /\ calc.pc = "done"
  /\ Processed(Len(env.ladder))
  /\ \E i, j \in 1..Len(calc.errors) :
       /\ calc.errors[i].error = "noRoute"
       /\ calc.errors[j].error = "overflow"
       /\ calc.errors[i].tradeSize < calc.errors[j].tradeSize

\* C3: when the function has returned, every ladder entry that was reached
\* and not truncated has a point keyed by its dollar value or an entry in
\* errors with its dollar value as trade size.
C3_EveryFailureRecorded ==
  calc.pc = "done" =>
    \A k \in Entries :
      (Processed(k) /\ ~TruncatedAt(k)) => (HasPoint(k) \/ Failed(k))

\* the pcs in which a ladder entry is being processed after its time check
InEntry ==
  calc.pc \in {"largeDelay", "ladderWait", "shrink", "shrinkSleep", "shrinkWait",
               "desc", "descSleep", "descWait", "bin", "binSleep", "binWait"}

\* the points of a are those of b, in the same order, whatever cumulative
\* amounts the assembly has added to them
SamePoints(a, b) ==
  /\ Len(a) = Len(b)
  /\ \A i \in 1..Len(a) :
       /\ a[i].tradeUsdValue = b[i].tradeUsdValue
       /\ a[i].price = b[i].price
       /\ a[i].amount = b[i].amount
       /\ a[i].outputAmount = b[i].outputAmount
       /\ a[i].priceImpact = b[i].priceImpact

\* this step appends the truncation message
Truncates ==
  /\ Len(calc'.logs) > Len(calc.logs)
  /\ calc'.logs[Len(calc'.logs)].tag = "timeout"

\* C4: a ladder entry is only processed when the elapsed time read at its
\* head does not exceed the budget; the step that finds the budget exceeded
\* appends the truncation message, requests no quote, appends no error and
\* returns the points (sorted) and errors collected so far; after a
\* truncation at entry k, no getQuote call and no error exists for entry k
\* or a later one.
C4_Truncation ==
  /\ [](/\ InEntry => calc.elapsed <= env.budget
        /\ \A k \in Entries :
             TruncatedAt(k) =>
               /\ calc.pc = "done"
               /\ \A j \in k..Len(env.ladder) : ~Failed(j) /\ ~HasPoint(j)
               /\ \A i \in 1..Len(calc.probes) : calc.probes[i].entry < k)
  /\ [][Truncates =>
          /\ calc'.pc = "done"
          /\ q' = q
          /\ calc'.errors = calc.errors
          /\ calc'.probes = calc.probes
          /\ SamePoints(calc'.points, SortByUsd(calc.points))]_vars

C4_Witness ==
  /\ calc.pc = "done"
  /\ env.budget = MAX_CALCULATION_TIME
  /\ \E k \in Entries : TruncatedAt(k) /\ k < Len(env.ladder)
  /\ calc.points # <<>>
  /\ calc.errors # <<>>

\* C5: no getQuote call of a calculation is made after its time budget has
\* expired: every call of the ladder loop, the shrink loop and the search
\* starts at an elapsed time within the budget.
C5_NoProbeAfterExpiry ==
  \A i \in 1..Len(calc.probes) :
    calc.probes[i].entry > 0 => calc.probes[i].at <= env.budget

AllRateLimited(c) == \A k \in 1..Len(c.hist) : c.hist[k] = "rateLimited"

\* C7: any two consecutive upstream quote requests of the process, successive
\* attempts of one getQuote call included, start at least MIN_QUOTE_INTERVAL
\* apart.
C7_Pacing == prevReqAt # NoTime => lastReqAt - prevReqAt >= MIN_QUOTE_INTERVAL

\* a caller that has passed the pacing gate and is at its first attempt
PassedGate(p) ==
  q[p].pc \in {"loop", "inflight"} /\ q[p].attempt = 1 /\ q[p].hist = <<>>

\* C8: concurrent callers are serialized at the pacing gate: no two of them pass
\* it on the same reading of lastQuoteTime, and their first requests start at
\* least MIN_QUOTE_INTERVAL apart.
C8_GateSerialized ==
  \A p, r \in Procs :
    (p # r /\ PassedGate(p) /\ PassedGate(r)) =>
      /\ q[p].readLQT # q[r].readLQT
      /\ (q[p].pc = "inflight" /\ q[r].pc = "inflight") =>
            \/ q[p].startAt - q[r].startAt >= MIN_QUOTE_INTERVAL
            \/ q[r].startAt - q[p].startAt >= MIN_QUOTE_INTERVAL

\* C9: after three RateLimited answers and then a success, getQuote has made
\* exactly 3 retries with strictly increasing waits, returns the quote, and
\* lastQuoteTime is not earlier than the start of the last attempt.
C9_BackoffThenSuccess ==
  \A p \in Procs :
    (q[p].pc = "ret"
       /\ q[p].hist = <<"rateLimited", "rateLimited", "rateLimited", "ok">>) =>
      /\ Len(q[p].waits) = 3
      /\ q[p].waits[1] < q[p].waits[2] /\ q[p].waits[2] < q[p].waits[3]
      /\ q[p].result.kind = "quote"
      /\ lastQuoteTime >= q[p].startAt

C11_NoRouteNotRetried ==
  \A p \in Procs :
    \A k \in 1..Len(q[p].hist) :
      q[p].hist[k] = "noRoute" =>
        /\ k = Len(q[p].hist)
        /\ q[p].pc = "ret"
        /\ q[p].result = ErrorResult("noRoute")

\* amount > Number.MAX_SAFE_INTEGER, written out
AboveCeiling(a) ==
  a[2] >= 7 /\ a[1] > (IF a[2] >= 16 THEN 0 ELSE MaxSafeOver1e7 \div Pow10(a[2] - 7))

\* the raw amount of ladder entry k under the current baseline
EntryRaw(k) == RawOf(env.ladder[k], calc.isBuy, calc.baselinePrice)

\* C12: getQuote is never called for a ladder entry, in its ladder quote, its
\* shrink loop or its search, with a raw amount above MAX_SAFE_INTEGER; a
\* ladder entry whose raw amount is above it gets no ladder quote, and when
\* the entry is over, errors holds its overflow error.
C12_OverflowNotQuoted ==
  /\ calc.pc \in {"ladderWait", "shrinkWait", "descWait", "binWait"} =>
       ~AboveCeiling(q[Cp].req.raw)
  /\ calc.pc \in {"largeDelay", "ladderWait"} => ~AboveCeiling(EntryRaw(calc.idx))
  /\ calc.pc \in {"shrink", "shrinkSleep", "shrinkWait"} =>
       /\ AboveCeiling(EntryRaw(calc.idx))
       /\ \A i \in 1..Len(calc.probes) :
            calc.probes[i].entry = calc.idx => calc.probes[i].phase = "shrink"
  /\ \A i \in 1..Len(calc.logs) :
       (calc.logs[i].tag = "overflow"
          /\ (calc.idx \notin Entries \/ env.ladder[calc.idx] # calc.logs[i].usd)) =>
         \E j \in 1..Len(calc.errors) :
           /\ calc.errors[j].tradeSize = calc.logs[i].usd
           /\ calc.errors[j].error = "overflow"

C12_Witness ==
  /\ calc.pc = "done"
  /\ \E j \in 1..Len(calc.errors) : calc.errors[j].error = "overflow"
  /\ \E i \in 1..Len(calc.probes) : calc.probes[i].phase = "shrink"
  /\ \E k \in Entries : ~HasPoint(k) /\ Failed(k)

\* this step handles the returned quote of a ladder entry, and the quote
\* has positive amounts on both sides
LadderQuoteSucceeds ==
  /\ calc.pc = "ladderWait"
  /\ calc'.pc # "ladderWait"
  /\ q[Cp].pc = "ret"
  /\ q[Cp].result.kind = "quote"
  /\ q[Cp].result.inAmt[1] > 0
  /\ q[Cp].result.outAmt[1] > 0

\* C13: the step that receives a successful quote for a ladder entry appends
\* exactly one point, keyed by the dollar value of the ladder entry, and
\* leaves the earlier points as they are.
C13_OnePointPerSuccess ==
  [][LadderQuoteSucceeds =>
       /\ Len(calc'.points) = Len(calc.points) + 1
       /\ SubSeq(calc'.points, 1, Len(calc.points)) = calc.points
       /\ calc'.points[Len(calc'.points)].tradeUsdValue = env.ladder[calc.idx]]_vars

C13_Witness ==
  /\ calc.pc = "ladder"
  /\ calc.idx = 6
  /\ Len(calc.points) = 5
  /\ \A k \in 1..5 : calc.points[k].tradeUsdValue = env.ladder[k]

\* this step handles a ladder quote that failed as NoRoute
LadderNoRoute ==
  /\ calc.pc = "ladderWait"
  /\ calc'.pc # "ladderWait"
  /\ q[Cp].pc = "ret"
  /\ q[Cp].result.kind = "error"
  /\ q[Cp].result.err = "noRoute"

\* the ladder entry k failed as NoRoute: its "cannot route" message is in logs
RoutingFailed(k) ==
  \E i \in 1..Len(calc.logs) :
    calc.logs[i].tag = "routing" /\ calc.logs[i].usd = env.ladder[k]

\* C14: a ladder quote that fails as NoRoute starts the search for that entry
\* over the candidates of its tier, and once the entry is over, errors holds
\* the NoRoute error of the entry, whether or not the search found a point.
C14_NoRouteSearchedAndRecorded ==
  /\ [](\A k \in Entries :
          (RoutingFailed(k) /\ (calc.pc = "done" \/ calc.idx # k)) =>
            \E j \in 1..Len(calc.errors) :
              /\ calc.errors[j].tradeSize = env.ladder[k]
              /\ calc.errors[j].error = "noRoute")
  /\ [][LadderNoRoute =>
          /\ calc'.pc = "desc"
          /\ calc'.idx = calc.idx
          /\ calc'.cands = DescCandidates(env.ladder[calc.idx])
          /\ calc'.ci = 1]_vars

C14_Witness ==
  /\ calc.pc = "ladder"
  /\ calc.idx > 1
  /\ calc.found
  /\ calc.errors # <<>>
  /\ calc.errors[Len(calc.errors)].tradeSize = env.ladder[calc.idx - 1]
  /\ calc.errors[Len(calc.errors)].error = "noRoute"
  /\ \E i \in 1..Len(calc.points) :
       /\ calc.points[i].tradeUsdValue < env.ladder[calc.idx - 1]
       /\ calc.idx > 2 => calc.points[i].tradeUsdValue > env.ladder[calc.idx - 2]

\* the search of ladder entry k is over
SearchOver(k) == RoutingFailed(k) /\ (calc.pc = "done" \/ calc.idx # k)

\* the oracle has routed exactly the amounts up to env.threshold, and the
\* threshold lies between the smallest descending candidate of entry k and
\* the entry's own value
ThresholdInRange(k) ==
  /\ env.mode = "threshold"
  /\ faults = 0
  /\ DescCandidates(env.ladder[k]) # <<>>
  /\ DescCandidates(env.ladder[k])[Len(DescCandidates(env.ladder[k]))] <= env.threshold
  /\ env.threshold < env.ladder[k]

\* C15: when the oracle routes exactly the amounts up to a threshold inside
\* the search range of a ladder entry, the finished search of the entry has
\* left a point whose dollar value is at most the threshold and within one
\* minStep of the tier below it.
C15_SearchConverges ==
  \A k \in Entries :
    (SearchOver(k) /\ ThresholdInRange(k)) =>
      \E i \in 1..Len(calc.points) :
        /\ calc.points[i].tradeUsdValue <= env.threshold
        /\ env.threshold - calc.points[i].tradeUsdValue <= MinStep(env.ladder[k])

\* C16: once a point has been recorded a baseline price exists: the first
\* point's price was made the baseline if the estimator had found none.
C16_FirstPointSetsBaseline ==
  calc.points # <<>> => calc.baselinePrice # NullPrice

\* C17: the baselinePrice of the response is the baseline established during
\* the calculation; without one it is the price of the first returned point,
\* and null when there is no point either.
C17_ReportedBaseline ==
  calc.pc = "done" =>
    ReportedBaseline(calc.points) =
      (IF calc.baselinePrice # NullPrice THEN calc.baselinePrice
       ELSE IF calc.points # <<>> THEN calc.points[1].price
       ELSE NullPrice)

\* C18: the returned points are strictly ascending by tradeUsdValue: no two
\* of them carry the same dollar value.
C18_StrictlySorted ==
  calc.pc = "done" =>
    \A i \in 1..Len(calc.points) : \A j \in 1..Len(calc.points) :
      i < j => calc.points[i].tradeUsdValue < calc.points[j].tradeUsdValue

\* a finished run that returns ladder points together with points of a
\* search, the search having met an already recorded value
C18_Witness ==
  /\ calc.pc = "done"
  /\ Len(calc.points) >= 3
  /\ \E k \in Entries : k > 1 /\ RoutingFailed(k) /\ HasPoint(k - 1)
  /\ \E i \in 1..Len(calc.points) :
       \A k \in Entries : calc.points[i].tradeUsdValue # env.ladder[k]

\* C19: every recorded point has priceImpact >= 0, whether the impact is the
\* oracle's own figure, the baseline comparison of the ladder, or the
\* comparison of the shrink loop and the search, with or without a baseline.
C19_ImpactNonNegative ==
  \A i \in 1..Len(calc.points) : calc.points[i].priceImpact >= 0

\* a finished run that returns a point whose price lies below the baseline,
\* found by the search, and a run whose search point has no baseline
C19_Witness ==
  /\ calc.pc = "done"
  /\ \E i \in 1..Len(calc.points) :
       /\ calc.points[i].price < calc.baselinePrice
       /\ calc.points[i].priceImpact > 0
       /\ \A k \in Entries : calc.points[i].tradeUsdValue # env.ladder[k]

\* a search point recorded without a baseline
C19_WitnessNoBaseline ==
  \E i \in 1..Len(calc.points) : calc.points[i].priceImpact = Infinity

\* the sum of the input amounts of the valid points among the first i
RECURSIVE SumValid(_, _)
SumValid(points, i) ==
  IF i = 0 THEN Zero
  ELSE IF PointValid(points[i]) THEN AmtAdd(SumValid(points, i - 1), points[i].amount)
  ELSE SumValid(points, i - 1)

\* C20: in the returned points, sorted by dollar value, each point's
\* cumulativeLiquidity is the sum of the input amounts of the valid points
\* up to and including it (so an invalid point has its predecessor's value,
\* 0 if it is the first), and the value never decreases along the sequence.
C20_CumulativeSum ==
  calc.pc = "done" =>
    /\ \A i \in 1..Len(calc.points) :
         calc.points[i].cumulativeLiquidity = SumValid(calc.points, i)
    /\ \A i \in 1..(Len(calc.points) - 1) :
         AmtLe(calc.points[i].cumulativeLiquidity,
               calc.points[i + 1].cumulativeLiquidity)

\* a finished run that returns three or more points, the last with a
\* cumulative amount above its own
C20_Witness ==
  /\ calc.pc = "done"
  /\ Len(calc.points) >= 3
  /\ calc.points[Len(calc.points)].cumulativeLiquidity
       # calc.points[Len(calc.points)].amount
  /\ \E k \in Entries : RoutingFailed(k)

\* C21: the sort-and-accumulate step is idempotent: applied to the points it
\* has produced it gives the same points in the same order, with the same
\* cumulativeLiquidity and cumulativeOutputLiquidity.
C21_AssembleIdempotent ==
  calc.pc = "done" => Assemble(calc.points) = calc.points

\* a finished run that returns four or more points, two of them recorded by
\* the shrink loop or the search, with a cumulative amount above the
\* point's own
C21_Witness ==
  /\ calc.pc = "done"
  /\ Len(calc.points) >= 4
  /\ \E i \in 1..Len(calc.points) : \E j \in 1..Len(calc.points) :
       /\ i < j
       /\ \A k \in Entries : calc.points[i].tradeUsdValue # env.ladder[k]
       /\ \A k \in Entries : calc.points[j].tradeUsdValue # env.ladder[k]
       /\ calc.points[j].cumulativeLiquidity # calc.points[j].amount

\* a finished Sell run against the oracle that routes every amount at the
\* one price 10^env.pe, without a priceImpactPct
FlatSellDone == env.mode = "flat" /\ ~calc.isBuy /\ calc.pc = "done"

\* the returned point i is the one of ladder entry k: keyed by the ladder
\* value, input amount = ladder value / price, price impact 0
IsEntryPoint(i, k) ==
  /\ calc.points[i].tradeUsdValue = env.ladder[k]
  /\ calc.points[i].amount = Norm(<<env.ladder[k], 0 - env.pe>>)
  /\ calc.points[i].price = env.pe
  /\ calc.points[i].priceImpact = 0

\* each returned point's cumulativeLiquidity is its input amount added to
\* the cumulativeLiquidity of the point before it
RunningSum ==
  \A i \in 1..Len(calc.points) :
    calc.points[i].cumulativeLiquidity =
      AmtAdd(IF i = 1 THEN Zero ELSE calc.points[i - 1].cumulativeLiquidity,
             calc.points[i].amount)

Quotable(k) ==
  /\ IsPositive(EntryRaw(k))
  /\ ~AboveCeiling(EntryRaw(k))
  /\ Processed(k)
  /\ ~TruncatedAt(k)

BaselineTrialValid ==
  /\ calc.pc = "baselineWait"
  /\ calc'.pc # "baselineWait"
  /\ q[Cp].pc = "ret"
  /\ q[Cp].result.kind = "quote"
  /\ q[Cp].result.inAmt[1] > 0
  /\ q[Cp].result.outAmt[1] > 0
  /\ OutputReadable(calc.isBuy, q[Cp].result)[2]
       - InputReadable(calc.isBuy, q[Cp].result)[2] < 10

\* C23: the step that receives a valid quote for a baseline trial makes its
\* price the baseline and leaves the baseline loop, so no further trial is
\* quoted; a step of the loop taken with a baseline in place does not
\* change it.
C23_FirstValidTrialFixesBaseline ==
  [][/\ BaselineTrialValid =>
          /\ calc'.pc = "ladder"
          /\ calc'.baselinePrice # NullPrice
     /\ (calc.pc \in {"baseline", "baselineWait"}
           /\ calc.baselinePrice # NullPrice) =>
          calc'.baselinePrice = calc.baselinePrice]_vars

\* C24: the baseline price is write-once: once it has a value no step of the
\* calculation changes it, for Buy and for Sell.
C24_BaselineWriteOnce ==
  [][calc.baselinePrice # NullPrice => calc'.baselinePrice = calc.baselinePrice]_vars

\* C25: lastQuoteTime is updated on every upstream attempt: when getQuote
\* has finished, lastQuoteTime is not earlier than the start of its last
\* attempt.
C25_TimestampEveryAttempt ==
  \A p \in Procs :
    (q[p].pc = "ret" /\ q[p].hist # <<>>) => lastQuoteTime >= q[p].startAt

\* this step handles the returned quote of a shrink candidate, and the quote
\* is a success: positive amounts on both sides and a price below 1e10
ShrinkQuoteSucceeds ==
  /\ calc.pc = "shrinkWait"
  /\ calc'.pc # "shrinkWait"
  /\ q[Cp].pc = "ret"
  /\ q[Cp].result.kind = "quote"
  /\ q[Cp].result.inAmt[1] > 0
  /\ q[Cp].result.outAmt[1] > 0
  /\ OutputReadable(calc.isBuy, q[Cp].result)[2]
       - InputReadable(calc.isBuy, q[Cp].result)[2] < 10

\* this step handles the returned quote or error of a shrink candidate
ShrinkQuoteReturns == calc.pc = "shrinkWait" /\ calc'.pc # "shrinkWait"

\* C26: the candidates of the overflow shrink are strictly decreasing and
\* below the entry's target; each quoted candidate has a raw amount that is
\* positive and within MAX_SAFE_INTEGER; the step that receives the first
\* successful quote ends the shrink of the entry and appends exactly one
\* point, keyed by the candidate's dollar value; a failed candidate appends
\* nothing.
C26_ShrinkFirstSuccess ==
  /\ [](calc.pc \in {"shrink", "shrinkSleep", "shrinkWait"} =>
          /\ \A i \in 1..Len(calc.cands) :
               /\ calc.cands[i] < env.ladder[calc.idx]
               /\ i > 1 => calc.cands[i] < calc.cands[i - 1]
          /\ calc.pc = "shrinkWait" =>
               /\ q[Cp].req.raw[1] > 0
               /\ ~AboveCeiling(q[Cp].req.raw))
  /\ [][/\ ShrinkQuoteSucceeds =>
             /\ calc'.pc = "ladder"
             /\ calc'.idx = calc.idx + 1
             /\ Len(calc'.points) = Len(calc.points) + 1
             /\ calc'.points[Len(calc'.points)].tradeUsdValue = calc.cands[calc.ci]
        /\ (ShrinkQuoteReturns /\ ~ShrinkQuoteSucceeds) =>
             calc'.points = calc.points]_vars

\* C27: the descending phase stops at the first candidate that quotes
\* successfully: no candidate is prepared or quoted for an entry once one
\* of its candidates has worked.
C27_DescStopsAtFirstSuccess ==
  calc.pc \in {"descSleep", "descWait"} => ~calc.found

BinPcs == {"bin", "binSleep", "binWait"}

\* this step handles the returned quote or error of a probed midpoint
BinQuoteReturns == calc.pc = "binWait" /\ calc'.pc # "binWait"

\* ... and the quote is a success: positive amounts, price below 1e10
BinQuoteSucceeds ==
  /\ BinQuoteReturns
  /\ q[Cp].pc = "ret"
  /\ q[Cp].result.kind = "quote"
  /\ q[Cp].result.inAmt[1] > 0
  /\ q[Cp].result.outAmt[1] > 0
  /\ OutputReadable(calc.isBuy, q[Cp].result)[2]
       - InputReadable(calc.isBuy, q[Cp].result)[2] < 10

\* the tier's minimum step, written out
TierStep(usd) ==
  IF usd >= 10000000 THEN 100000
  ELSE IF usd >= 1000000 THEN 10000
  ELSE IF usd >= 100000 THEN 1000
  ELSE IF usd >= 10000 THEN 100
  ELSE IF usd >= 1000 THEN 50
  ELSE 10

\* C28: during the binary narrowing low < high; a midpoint is probed only
\* while high - low exceeds the tier's minimum step, and lies strictly
\* between low and high; a probed midpoint that quotes successfully becomes
\* the new low and is appended as a point keyed by the midpoint; one that
\* fails becomes the new high and appends nothing; the loop is left only
\* when high - low is no larger than the minimum step.
C28_BinaryNarrowing ==
  /\ [](calc.pc \in BinPcs =>
          /\ calc.low < calc.high
          /\ calc.pc \in {"binSleep", "binWait"} =>
               /\ calc.low < calc.mid /\ calc.mid < calc.high
               /\ calc.high - calc.low > TierStep(env.ladder[calc.idx]))
  /\ [][/\ BinQuoteSucceeds =>
             /\ calc'.low = calc.mid /\ calc'.high = calc.high
             /\ Len(calc'.points) = Len(calc.points) + 1
             /\ calc'.points[Len(calc'.points)].tradeUsdValue = calc.mid
        /\ (BinQuoteReturns /\ ~BinQuoteSucceeds) =>
             /\ calc'.high = calc.mid /\ calc'.low = calc.low
             /\ calc'.points = calc.points
        /\ (calc.pc = "bin" /\ calc'.pc \notin BinPcs) =>
             calc.high - calc.low <= TierStep(env.ladder[calc.idx])]_vars

\* a binary search in which one probed midpoint has worked and another has
\* failed
C28_Witness ==
  /\ calc.pc = "bin"
  /\ calc.best > calc.maxWorking
  /\ calc.low = calc.best
  /\ calc.high < env.ladder[calc.idx]
  /\ \E i \in 1..Len(calc.points) : calc.points[i].tradeUsdValue = calc.best

SearchPcs == {"desc", "descSleep", "descWait", "bin", "binSleep", "binWait"}

\* the least n with 2^n * step >= width: ceil(log2(width / step)), 0 for a
\* width within one step
RECURSIVE CeilLog2(_, _)
CeilLog2(width, step) ==
  IF width <= step THEN 0 ELSE 1 + CeilLog2((width + 1) \div 2, step)

\* the quotes requested in the descending phase of ladder entry k
DescProbes(k) ==
  {i \in 1..Len(calc.probes) :
     calc.probes[i].phase = "desc" /\ calc.probes[i].entry = k}

\* C29: the maximum-liquidity search is bounded whatever the oracle answers:
\* the descending phase walks its fixed candidate list once, requesting at
\* most one quote per candidate; every iteration of the binary phase
\* strictly shrinks high - low, and the binary phase makes at most
\* ceil(log2((target - low) / minStep)) iterations.
C29_SearchTerminates ==
  /\ [](calc.pc \in SearchPcs =>
          /\ calc.ci <= Len(calc.cands) + 1
          /\ Cardinality(DescProbes(calc.idx)) <= Len(calc.cands)
          /\ Cardinality(DescProbes(calc.idx)) <= calc.ci
          /\ calc.pc \in BinPcs =>
               calc.iters <= CeilLog2(env.ladder[calc.idx] - calc.maxWorking,
                                      TierStep(env.ladder[calc.idx])))
  /\ [][/\ (calc.pc \in SearchPcs /\ calc'.pc \in SearchPcs) =>
             /\ calc'.cands = calc.cands
             /\ calc'.ci >= calc.ci
        /\ (calc.pc = "descWait" /\ calc'.pc # "descWait") =>
             calc'.ci = calc.ci + 1
        /\ (calc.pc \in BinPcs /\ calc'.pc \in BinPcs
              /\ calc'.iters # calc.iters) =>
             /\ calc'.iters = calc.iters + 1
             /\ calc'.high - calc'.low < calc.high - calc.low
                   \/ calc'.pc = "binSleep"
        /\ (calc.pc = "binWait" /\ calc'.pc # "binWait") =>
             calc'.high - calc'.low < calc.high - calc.low]_vars

\* a search whose binary phase has used every iteration of its bound
C29_Witness ==
  /\ calc.pc = "bin"
  /\ calc.iters >= 3
  /\ calc.iters = CeilLog2(env.ladder[calc.idx] - calc.maxWorking,
                           TierStep(env.ladder[calc.idx]))
  /\ Cardinality(DescProbes(calc.idx)) = Len(calc.cands)

\* this step appends a point in the overflow shrink, the descending phase or
\* the binary phase
SearchInserts ==
  /\ calc.pc \in {"shrinkWait", "descWait", "binWait"}
  /\ Len(calc'.points) > Len(calc.points)

\* C30: a point appended by the overflow shrink or by the maximum-liquidity
\* search is at least $1000 away from every point recorded before it in the
\* same calculation.
C30_SearchPointsDeduplicated ==
  [][SearchInserts =>
       /\ Len(calc'.points) = Len(calc.points) + 1
       /\ \A i \in 1..Len(calc.points) :
            \/ calc.points[i].tradeUsdValue
                 - calc'.points[Len(calc'.points)].tradeUsdValue >= 1000
            \/ calc'.points[Len(calc'.points)].tradeUsdValue
                 - calc.points[i].tradeUsdValue >= 1000]_vars

\* a descending phase that has appended a point next to earlier ladder
\* points and has left out a candidate that worked but was too close to a
\* recorded point
C30_Witness ==
  /\ calc.pc = "desc"
  /\ calc.found
  /\ Len(calc.points) >= 3
  /\ \A k \in Entries :
       calc.points[Len(calc.points)].tradeUsdValue # env.ladder[k]
  /\ env.mode = "threshold" /\ faults = 0
  /\ \E j \in 1..(calc.ci - 1) :
       /\ calc.cands[j] <= env.threshold
       /\ \A i \in 1..Len(calc.points) :
            calc.points[i].tradeUsdValue # calc.cands[j]

DescPcs == {"desc", "descSleep", "descWait"}

\* this step handles the returned quote or error of a descending candidate
DescQuoteReturns == calc.pc = "descWait" /\ calc'.pc # "descWait"

\* ... and the quote is a success: positive amounts, price below 1e10
DescQuoteSucceeds ==
  /\ DescQuoteReturns
  /\ q[Cp].pc = "ret"
  /\ q[Cp].result.kind = "quote"
  /\ q[Cp].result.inAmt[1] > 0
  /\ q[Cp].result.outAmt[1] > 0
  /\ OutputReadable(calc.isBuy, q[Cp].result)[2]
       - InputReadable(calc.isBuy, q[Cp].result)[2] < 10

\* this step leaves the descending loop of an entry none of whose candidates
\* has worked
DescExhausted == calc.pc = "desc" /\ ~calc.found /\ calc'.pc \notin DescPcs

\* C31: a search starts with no working candidate; a descending candidate
\* that fails adds no point and leaves the search without a working
\* candidate; the binary phase runs only after a candidate has worked; when
\* the descending loop ends without one, that step adds no point and no
\* quote, appends the error of the rejected ladder entry and moves on to the
\* next ladder entry.
C31_ExhaustedSearch ==
  /\ [](calc.pc \in BinPcs => calc.found)
  /\ [][/\ LadderNoRoute => ~calc'.found
        /\ (DescQuoteReturns /\ ~DescQuoteSucceeds) =>
             /\ calc'.points = calc.points
             /\ calc'.found = calc.found
        /\ (calc.pc \in {"desc", "descSleep"}) => calc'.points = calc.points
        /\ DescExhausted =>
             /\ calc'.pc = "ladder"
             /\ calc'.idx = calc.idx + 1
             /\ calc'.points = calc.points
             /\ calc'.probes = calc.probes
             /\ q' = q
             /\ Len(calc'.errors) = Len(calc.errors) + 1
             /\ calc'.errors[Len(calc'.errors)].tradeSize = env.ladder[calc.idx]
             /\ calc'.errors[Len(calc'.errors)].error = "noRoute"]_vars

\* the second ladder entry is being quoted after the search of the first
\* one has tried all its candidates, none of which worked
C31_Witness ==
  /\ calc.pc = "ladderWait"
  /\ calc.idx = 2
  /\ ~calc.found
  /\ RoutingFailed(1)
  /\ Cardinality(DescProbes(1)) = Len(DescCandidates(env.ladder[1]))
  /\ calc.points = <<>>
  /\ Len(calc.errors) = 1
  /\ calc.errors[1].tradeSize = env.ladder[1]

\* this step handles a ladder quote that getQuote has thrown as RateLimited,
\* Invalid or Transport
LadderOtherFailure ==
  /\ calc.pc = "ladderWait"
  /\ calc'.pc # "ladderWait"
  /\ q[Cp].pc = "ret"
  /\ q[Cp].result.kind = "error"
  /\ q[Cp].result.err \in {"rateLimited", "invalid", "transport"}

\* the quotes the search has requested for ladder entry k
SearchProbes(k) ==
  {i \in 1..Len(calc.probes) :
     calc.probes[i].phase \in {"desc", "bin"} /\ calc.probes[i].entry = k}

\* C32: the search is entered only by the step that handles a ladder quote
\* failed as NoRoute, and search quotes exist only for such entries; a
\* RateLimited error reaches the ladder only from the last of the call's
\* attempts; the step that handles a RateLimited, Invalid or Transport failure
\* of a ladder quote appends exactly one error, for that entry and with that
\* failure, requests no quote and moves on to the next ladder entry.
C32_SearchOnlyOnNoRoute ==
  /\ [](/\ \A k \in Entries : SearchProbes(k) # {} => RoutingFailed(k)
        /\ (calc.pc = "ladderWait" /\ q[Cp].pc = "ret"
              /\ q[Cp].result.err = "rateLimited") =>
             Len(q[Cp].hist) = q[Cp].retries)
  /\ [][/\ (calc.pc \notin SearchPcs /\ calc'.pc \in SearchPcs) => LadderNoRoute
        /\ LadderOtherFailure =>
             /\ calc'.pc = "ladder"
             /\ calc'.idx = calc.idx + 1
             /\ calc'.points = calc.points
             /\ calc'.probes = calc.probes
             /\ q'[Cp].pc = "idle"
             /\ Len(calc'.errors) = Len(calc.errors) + 1
             /\ SubSeq(calc'.errors, 1, Len(calc.errors)) = calc.errors
             /\ calc'.errors[Len(calc'.errors)].tradeSize = env.ladder[calc.idx]
             /\ calc'.errors[Len(calc'.errors)].error = q[Cp].result.err]_vars

\* a finished run in which every ladder entry was rate limited until its
\* retries were exhausted: one error per entry, no search quote
C32_Witness ==
  /\ calc.pc = "done"
  /\ Len(calc.errors) = Len(env.ladder)
  /\ \A k \in Entries :
       /\ calc.errors[k].tradeSize = env.ladder[k]
       /\ calc.errors[k].error = "rateLimited"
       /\ calc.errors[k].statusCode = 429
       /\ SearchProbes(k) = {}

\* a ladder entry that failed as Transport through an answer outside the
\* oracle's routing rule, between entries that were quoted
C32_WitnessTransport ==
  /\ calc.pc = "ladderWait"
  /\ calc.idx > 1
  /\ calc.points # <<>>
  /\ calc.errors # <<>>
  /\ calc.errors[Len(calc.errors)].tradeSize = env.ladder[calc.idx - 1]
  /\ calc.errors[Len(calc.errors)].error = "transport"
  /\ SearchProbes(calc.idx - 1) = {}

\* the dollar value the calculation is requesting a quote for
ProbedUsd ==
  CASE calc.pc = "ladderWait" -> env.ladder[calc.idx]
    [] calc.pc \in {"shrinkWait", "descWait"} -> calc.cands[calc.ci]
    [] calc.pc = "binWait" -> calc.mid
    [] OTHER -> 0

\* the token amount of the probed dollar value in base units of the token
\* the direction spends: dollars of the output token for Buy, input tokens
\* at the baseline price (or at $100) for Sell
SpentRaw ==
  IF calc.isBuy THEN Floor(<<ProbedUsd, env.outDec>>)
  ELSE IF calc.baselinePrice # NullPrice
    THEN Floor(<<ProbedUsd, env.inDec - calc.baselinePrice>>)
  ELSE Floor(<<ProbedUsd, env.inDec - 2>>)

\* this step appends a point from the quote the calculation has waited for
PointRecorded ==
  /\ calc.pc \in {"ladderWait", "shrinkWait", "descWait", "binWait"}
  /\ Len(calc'.points) = Len(calc.points) + 1

\* C33: every quote the calculation requests for a ladder entry, a shrink
\* candidate or a search candidate names the output token as the token to
\* spend when the direction is Buy and the input token when it is Sell, and
\* its raw amount is the token amount in base units of that token; a point
\* recorded from the quote has the amount of the pair's input token as
\* amount and the amount of the pair's output token as outputAmount,
\* whichever of the two was spent, so that against the flat oracle its price
\* is the pair's price in both directions.
C33_DirectionMapping ==
  /\ [](/\ calc.pc \in {"ladderWait", "shrinkWait", "descWait", "binWait"} =>
             /\ q[Cp].req.inMint = (IF calc.isBuy THEN "B" ELSE "A")
             /\ q[Cp].req.raw = SpentRaw
        /\ env.mode = "flat" =>
             \A i \in 1..Len(calc.points) : calc.points[i].price = env.pe)
  /\ [][PointRecorded =>
          LET point == calc'.points[Len(calc'.points)]
              res == q[Cp].result
          IN  IF calc.isBuy
                THEN /\ point.outputAmount = Readable(q[Cp].req.raw, env.outDec)
                     /\ point.outputAmount = Norm(<<ProbedUsd, 0>>)
                     /\ point.amount = Readable(res.outAmt, env.inDec)
                ELSE /\ point.amount = Readable(q[Cp].req.raw, env.inDec)
                     /\ point.outputAmount = Readable(res.outAmt, env.outDec)]_vars

\* a finished Buy run at price 100: the $500 entry spent 500 output tokens
\* for 5 input tokens, and the search has recorded a point as well
C33_Witness ==
  /\ calc.pc = "done"
  /\ calc.isBuy
  /\ Len(calc.points) >= 3
  /\ calc.points[1].tradeUsdValue = 500
  /\ calc.points[1].outputAmount = <<5, 2>>
  /\ calc.points[1].amount = <<5, 0>>
  /\ \E i \in 1..Len(calc.points) :
       \A k \in Entries : calc.points[i].tradeUsdValue # env.ladder[k]

\* the query parameters of the upstream request getQuote sends:
\* inputMint, outputMint, amount and swapMode
UpstreamParams(req) ==
  [inputMint |-> req.inMint, outputMint |-> IF req.inMint = "A" THEN "B" ELSE "A",
   amount |-> req.raw, swapMode |-> "ExactIn"]

\* the tolerance of a ladder entry, by its dollar size
SlippageTier(usd) ==
  IF usd < 1000000 THEN 50
  ELSE IF usd < 10000000 THEN 500
  ELSE IF usd < 50000000 THEN 5000
  ELSE 10000

\* C34: the slippage tolerance of a ladder entry is the one of its size tier
\* (default below $1M, moderate from $1M, high from $10M, maximum from $50M),
\* it never decreases along the ladder, getQuote is called with it, and the
\* upstream request of the entry carries it.
C34_SlippageCarried ==
  /\ \A j, k \in Entries :
       j <= k => LadderSlippage(env.ladder[j]) <= LadderSlippage(env.ladder[k])
  /\ (calc.pc = "ladderWait" /\ q[Cp].pc = "inflight") =>
       /\ q[Cp].req.slippageBps = SlippageTier(env.ladder[calc.idx])
       /\ "slippageBps" \in DOMAIN UpstreamParams(q[Cp].req)
       /\ UpstreamParams(q[Cp].req).slippageBps = SlippageTier(env.ladder[calc.idx])

\* the part of C34 that concerns the argument of getQuote alone
SlippageArgument ==
  /\ \A j, k \in Entries :
       j <= k => LadderSlippage(env.ladder[j]) <= LadderSlippage(env.ladder[k])
  /\ (calc.pc = "ladderWait" /\ q[Cp].pc = "inflight") =>
       q[Cp].req.slippageBps = SlippageTier(env.ladder[calc.idx])

\* C35: a baseline price, once there is one, is below the sanity ceiling of
\* 1e10 (a price of the model is positive and finite), and every recorded
\* point has a price not above the ceiling and positive input and output
\* amounts.
C35_PriceValidity ==
  /\ calc.baselinePrice # NullPrice => calc.baselinePrice < 10
  /\ \A i \in 1..Len(calc.points) :
       /\ calc.points[i].price # NullPrice
       /\ calc.points[i].price <= 10
       /\ calc.points[i].amount[1] > 0
       /\ calc.points[i].outputAmount[1] > 0

\* the part of C35 that concerns the recorded points alone
PointsValid ==
  \A i \in 1..Len(calc.points) :
    /\ calc.points[i].price # NullPrice
    /\ calc.points[i].price <= 10
    /\ calc.points[i].amount[1] > 0
    /\ calc.points[i].outputAmount[1] > 0

\* C36: every raw amount the calculation passes to getQuote (reverse probe,
\* baseline trials, ladder entries, shrink candidates, descending and binary
\* candidates) is an integer, positive and not above MAX_SAFE_INTEGER.
C36_RawAmountInRange ==
  q[Cp].pc # "idle" =>
    /\ q[Cp].req.raw[2] >= 0
    /\ q[Cp].req.raw[1] > 0
    /\ ~AboveCeiling(q[Cp].req.raw)

\* the part of C36 that concerns the quotes of the ladder loop: ladder
\* entries, shrink candidates and search candidates
LadderRawInRange ==
  calc.pc \in {"ladderWait", "shrinkWait", "descWait", "binWait"} =>
    /\ q[Cp].req.raw[2] >= 0
    /\ q[Cp].req.raw[1] > 0
    /\ ~AboveCeiling(q[Cp].req.raw)

\* C37: during the binary narrowing low is an amount the oracle has quoted
\* successfully: it changes only in the step that receives a successful quote
\* for the midpoint, to that midpoint, and against an oracle that routes
\* exactly the amounts up to its depth low never exceeds the depth.
C37_LowWasQuoted ==
  /\ []((calc.pc \in BinPcs /\ env.mode = "threshold" /\ faults = 0) =>
          calc.low <= env.threshold)
  /\ [][(calc.pc \in BinPcs /\ calc'.pc \in BinPcs /\ calc'.low # calc.low) =>
          /\ BinQuoteSucceeds
          /\ calc'.low = calc.mid]_vars

\* this step is caller p entering getTokenList
TokenCallStarts(p) == tok.c[p].pc = "idle" /\ tok'.c[p].pc # "idle"

\* ... and the call is answered from the cache: the stored list, no request
ServedFromCache(p) ==
  /\ tok'.c[p].pc = "ret"
  /\ tok'.c[p].result = tok.stored
  /\ tok'.requests = tok.requests

\* ... and the call starts a round of upstream requests
FetchesAgain(p) == tok'.c[p].pc = "fetching" /\ tok'.requests = tok.requests + 1

\* C38 as stated, the hour counted from the moment the list was stored:
\* a call of getTokenList made less than an hour after a list built from
\* upstream was stored, with no refresh since the store and none in the call,
\* returns that list and makes no upstream request; a call made an hour or
\* more after the last store, or with refresh=true, starts a round of
\* upstream requests; the fallback list is never stored in the cache.
C38_TokenListCache ==
  /\ [](tok.cache # FallbackList)
  /\ [][\A p \in Procs :
          TokenCallStarts(p) =>
            /\ (tok.cache # NoList /\ ~tok'.c[p].refresh
                  /\ now - tok.storedAt < TOKEN_LIST_CACHE_DURATION) =>
                 ServedFromCache(p)
            /\ (tok'.c[p].refresh
                  \/ (tok.storedAt # NoTime
                        /\ now - tok.storedAt >= TOKEN_LIST_CACHE_DURATION)) =>
                 FetchesAgain(p)]_vars

\* C38, the hour counted from the entry of the call that stored the list
\* (the time kept in tokenListCacheTime): a call of getTokenList made less
\* than an hour after that entry, with no refresh since the store and none in
\* the call, returns the stored list and makes no upstream request; a call
\* made an hour or more after that entry, or with refresh=true, starts a
\* round of upstream requests; the fallback list is never stored in the cache.
C38_TokenListCacheFromEntry ==
  /\ [](tok.cache # FallbackList)
  /\ [](tok.cache # NoList => tok.cache = tok.stored /\ tok.cacheTime <= tok.storedAt)
  /\ [][\A p \in Procs :
          TokenCallStarts(p) =>
            /\ (tok.cache # NoList /\ ~tok'.c[p].refresh
                  /\ now - tok.cacheTime < TOKEN_LIST_CACHE_DURATION) =>
                 ServedFromCache(p)
            /\ (tok'.c[p].refresh
                  \/ (tok.cache # NoList
                        /\ now - tok.cacheTime >= TOKEN_LIST_CACHE_DURATION)) =>
                 FetchesAgain(p)]_vars

\* one caller was answered from the cache by a call made after the store, the
\* other entered an hour or more after the entry of the storing call and is
\* fetching again
C38_Witness ==
  \E p, r \in Procs :
    /\ tok.c[r].pc = "ret"
    /\ tok.c[r].now > tok.storedAt
    /\ tok.c[r].result = tok.stored
    /\ tok.c[p].pc = "fetching"
    /\ ~tok.c[p].refresh
    /\ tok.cache # NoList
    /\ tok.c[p].now - tok.cacheTime >= TOKEN_LIST_CACHE_DURATION

\* the parts of C38 about the refetch and the fallback list
RefetchAndFallback ==
  /\ [](tok.cache # FallbackList)
  /\ [][\A p \in Procs :
          (TokenCallStarts(p)
             /\ (tok'.c[p].refresh
                   \/ (tok.storedAt # NoTime
                         /\ now - tok.storedAt >= TOKEN_LIST_CACHE_DURATION))) =>
            FetchesAgain(p)]_vars

\* the file lists its snapshots in the order of the saves that wrote them
InInsertionOrder(snapshots) ==
  \A i, j \in 1..Len(snapshots) : i < j => snapshots[i].n < snapshots[j].n

\* C39: after any sequence of saveSnapshot calls the file holds only
\* snapshots stamped less than 7 days before the latest save, the snapshot of
\* the latest save is its last entry, and the snapshots kept are in the order
\* in which they were saved.
C39_SnapshotRetention ==
  snap.saves > 0 =>
    /\ \A i \in 1..Len(snap.file) :
         /\ snap.file[i].timestamp <= snap.last
         /\ snap.last - snap.file[i].timestamp < SEVEN_DAYS
    /\ Len(snap.file) > 0
    /\ snap.file[Len(snap.file)] = [timestamp |-> snap.last, n |-> snap.saves]
    /\ InInsertionOrder(snap.file)

\* three saves: the filter has dropped the first, the second, saved a millisecond
\* before the third, is still in the file, ahead of the third
C39_Witness ==
  /\ snap.saves = 3
  /\ snap.dropped = 1
  /\ Len(snap.file) = 2
  /\ snap.file[1].n = 2
  /\ snap.last - snap.file[1].timestamp = 1

====
